---- MODULE Spec2Model ----
(***************************************************************************)
(* Model of the camera layer of harvestersSDK-API:                         *)
(*   src/src/base/camera_base.py      CameraBase                           *)
(*   src/src/vendors/at_sensors_3d.py CameraATSensors3D                    *)
(* and of its transport wrapper:                                           *)
(*   src/src/base/transport_harvesters.py TransportHarvesters              *)
(*                                                                         *)
(* A camera is one CameraATSensors3D object.  Every public method is one   *)
(* action.  A method body is an operator from the object's fields before   *)
(* the call to the SET of outcomes the call can have: every call into the  *)
(* transport either returns or raises, and the set holds one outcome per   *)
(* combination.  An outcome is [m, exc, val]: the fields after the call,   *)
(* the exception that escaped ("none" for a normal return) and the value   *)
(* returned.  The transport wrapper is a second object, modelled the same  *)
(* way over the calls it makes into the Harvesters SDK.  Spec and          *)
(* SpecParams run the camera object, SpecTransport runs the wrapper,       *)
(* SpecFactory the create_camera factory (src/harvestersSDK_api.py),       *)
(* SpecProgram the threaded capture example and SpecCloud the point cloud  *)
(* builder (src/src/utils/point_cloud_processing.py); SpecAccess runs the  *)
(* frame and parameter accessors of the camera.                            *)
(***************************************************************************)
EXTENDS Integers, Sequences, FiniteSets

VARIABLES
    topology,          \* self.topology
    id_sensor1,        \* self.id_sensor1 (user_defined_name of sensor_1, or None)
    id_sensor2,        \* self.id_sensor2 (user_defined_name of sensor_2, or None)
    strict,            \* self.strict
    acquirers,         \* self._acquirers: list of ImageAcquirer handles
    acquiring_states,  \* self._acquiring_states: id(ia) -> bool
    initialized,       \* self._initialized
    created_for,       \* per live handle: the user_defined_name it was created with
    epoch,             \* transport initialize/create calls since construction or the last disconnect
    last,              \* the last call: method, arguments, fields before, outcome, transport calls
    harvester,         \* TransportHarvesters.harvester (None or the Harvester object)
    image_acquirer,    \* TransportHarvesters.image_acquirer (None or an ImageAcquirer handle)
    devices_list,      \* TransportHarvesters.devices_list
    is_connected,      \* TransportHarvesters._is_connected
    is_acquiring,      \* TransportHarvesters._is_acquiring
    device_info_list,  \* the devices the GenTL producer reports (harvester.device_info_list)
    session,           \* connect_device and SDK calls since the last disconnect_device
    tlast,             \* the last call on the transport: method, argument, fields before, outcome
    factory,           \* the last create_camera call: its arguments and its outcome
    main_pc,           \* threaded capture program: where its main thread is
    capture_count,     \* threaded capture program: capture_count
    capture_threads,   \* threaded capture program: where each capture thread created so far is
    frame,             \* build_point_cloud_from_frame: frame[0] (width, height, data)
    camera_calibration, \* build_point_cloud_from_frame: the calibration dict (empty: None)
    xyz                \* the clouds built from frame with flip_yx False and with flip_yx True

\* the camera object, and the transport object with its SDK
cvars == <<topology, id_sensor1, id_sensor2, strict, acquirers, acquiring_states,
           initialized, created_for, epoch, last>>
tvars == <<harvester, image_acquirer, devices_list, is_connected, is_acquiring,
           device_info_list, session, tlast>>

\* the programs around the camera: the factory of the public API, the threaded
\* capture example, and the point cloud builder
fvars == <<factory>>
pvars == <<main_pc, capture_count, capture_threads>>
gvars == <<frame, camera_calibration, xyz>>
xvars == <<fvars, pvars, gvars>>

vars == <<cvars, tvars, xvars>>

----------------------------------------------------------------------------
(* Bounds of the model *)

\* acquirer_index arguments range over -(MaxIndex+1) .. MaxIndex
MaxIndex == 2

\* a GenICam parameter dictionary holds at most the first MaxParams node names
MaxParams == 2
\* the captures the threaded capture program is asked for
MaxCaptures == 2
\* the pixels of a range image (width * height)
MaxPixels == 4

----------------------------------------------------------------------------
(* Values *)

None == "None"

\* user_defined_name of the master sensor (sensor_1) and of the slave (sensor_2)
MasterName == "21815765M"
SlaveName == "21815765S"

SingleSensor == "single_sensor"
DualSensor == "dual_sensor"

\* the exception classes of error_handling.py, and those that are a CameraError
CameraErrorFamily == {"CameraError", "ConnectionError", "AcquisitionError", "ParameterError"}

IndexArgs == (0 - (MaxIndex + 1)) .. MaxIndex

\* GenICam node names of CameraATSensors3D.NODES, in declaration order
NODES == <<"ExposureTime", "Gain", "PixelFormat", "Width", "Height", "OffsetX", "OffsetY">>

\* the keys of CameraATSensors3D.NODES, in declaration order, and NODES[key]
NODE_KEYS == <<"exposure", "gain", "pixel_format", "width", "height", "offset_x", "offset_y">>
Node(key) == NODES[CHOOSE i \in DOMAIN NODE_KEYS : NODE_KEYS[i] = key]

\* config.get("timeout_ms", 5000)
timeout_ms == 5000

EmptyMap == [x \in {} |-> FALSE]

\* dict.get(key, default)
DictGet(d, k, default) == IF k \in DOMAIN d THEN d[k] ELSE default

\* d[k] = v on a dict
DictPut(d, k, v) == [x \in (DOMAIN d) \cup {k} |-> IF x = k THEN v ELSE d[x]]

Range(s) == {s[i] : i \in DOMAIN s}

\* Python list indexing: seq[i] is defined for -len <= i < len
IndexInList(s, i) == (0 - Len(s)) <= i /\ i < Len(s)
ListAt(s, i) == IF i >= 0 THEN s[i + 1] ELSE s[Len(s) + i + 1]

\* id() of a new object: distinct from the id of every live object
NewHandle(live) == CHOOSE h \in 1 .. (Cardinality(live) + 1) : h \notin live

----------------------------------------------------------------------------
(* Outcomes and their composition *)

NoValue == [x \in {} |-> None]

Return(m, v) == [m |-> m, exc |-> "none", val |-> v]
Raise(m, e) == [m |-> m, exc |-> e, val |-> NoValue]

\* Of the outcomes S of a statement: those after which the next statement runs,
\* and those in which an exception propagates (to the enclosing except, or out).
Normal(S) == {r \in S : r.exc = "none"}
Abrupt(S) == {r \in S : r.exc # "none"}

\* statements with outcomes S, then `return v`
Returning(S, v) == {IF r.exc = "none" THEN Return(r.m, v) ELSE r : r \in S}

\* statements with outcomes S whose own exceptions are swallowed, then `raise e`
Raising(S, e) == {Raise(r.m, e) : r \in S}

\* A call into self._transport: it returns or raises; either way it is logged.
Transport(m, call, ia, node) ==
    {[m |-> [m EXCEPT !.calls = Append(@, [call |-> call, ia |-> ia, node |-> node, ok |-> ok])],
      ok |-> ok] : ok \in BOOLEAN}

----------------------------------------------------------------------------
(* CameraBase (src/src/base/camera_base.py) *)

\* @property connected
connected(m) == Len(m.acquirers) > 0

\* @property acquiring: any(self._acquiring_states.values())
acquiring(m) == \E k \in DOMAIN m.acquiring_states : m.acquiring_states[k]

\* self._acquiring_states.get(id(ia), False)
IsAcquiring(m, ia) == DictGet(m.acquiring_states, ia, FALSE)

\* faulty variant of _ensure_transport_initialized: self._initialized is never set
ensure_transport_initialized_Forgets(m) ==
    IF m.initialized
    THEN {Return(m, NoValue)}
    ELSE {IF t.ok THEN Return(t.m, NoValue) ELSE Raise(t.m, "ConnectionError")
          : t \in Transport(m, "initialize", 0, None)}

ensure_transport_initialized(m) ==
    IF m.initialized
    THEN {Return(m, NoValue)}
    ELSE {IF t.ok
          THEN Return([t.m EXCEPT !.initialized = TRUE], NoValue)
          ELSE Raise(t.m, "ConnectionError") : t \in Transport(m, "initialize", 0, None)}

\* faulty variant of CreateAndTrack: the acquirer is appended, its state not tracked
CreateAndTrack_NoState(m, selector) ==
    LET ia == NewHandle(Range(m.acquirers))
    IN  {IF t.ok
         THEN Return([t.m EXCEPT !.acquirers = Append(@, ia),
                                 !.created_for = DictPut(@, ia, selector)],
                     [ia |-> ia])
         ELSE Raise(t.m, "Exception")
         : t \in Transport(m, "create_image_acquirer", ia, selector)}

\* self._transport.create_image_acquirer(selector), then the bookkeeping of connect
CreateAndTrack(m, selector) ==
    LET ia == NewHandle(Range(m.acquirers))
    IN  {IF t.ok
         THEN Return([t.m EXCEPT !.acquirers = Append(@, ia),
                                 !.acquiring_states = DictPut(@, ia, FALSE),
                                 !.created_for = DictPut(@, ia, selector)],
                     [ia |-> ia])
         ELSE Raise(t.m, "Exception")
         : t \in Transport(m, "create_image_acquirer", ia, selector)}

CameraBase_connect(m, device_selector) ==
    LET ensured == ensure_transport_initialized(m)
        body == Abrupt(ensured)
                \cup UNION {CreateAndTrack(r.m, device_selector) : r \in Normal(ensured)}
    IN  Normal(body) \cup Raising(Abrupt(body), "ConnectionError")

\* for ia in list(self._acquirers): stop it if tracked as acquiring, swallow a failure
RECURSIVE StopActive(_, _)
StopActive(m, ias) ==
    IF ias = <<>> THEN {m}
    ELSE IF IsAcquiring(m, Head(ias))
         THEN UNION {StopActive(t.m, Tail(ias))
                     : t \in Transport(m, "stop_image_acquirer", Head(ias), None)}
         ELSE StopActive(m, Tail(ias))

\* faulty variant of DestroyAll: the loop ends at the first destroy that fails
RECURSIVE DestroyAll_FailFast(_, _)
DestroyAll_FailFast(m, ias) ==
    IF ias = <<>> THEN {m}
    ELSE UNION {IF t.ok THEN DestroyAll_FailFast(t.m, Tail(ias)) ELSE {t.m}
                : t \in Transport(m, "destroy_image_acquirer", Head(ias), None)}

\* for ia in list(self._acquirers): destroy it, swallow a failure
RECURSIVE DestroyAll(_, _)
DestroyAll(m, ias) ==
    IF ias = <<>> THEN {m}
    ELSE UNION {DestroyAll(t.m, Tail(ias))
                : t \in Transport(m, "destroy_image_acquirer", Head(ias), None)}

\* faulty variant of ClearRegistry: the list is emptied, the state map is kept
ClearRegistry_KeepsStates(m) ==
    [m EXCEPT !.acquirers = <<>>, !.created_for = EmptyMap]

\* self._acquirers = []; self._acquiring_states = {}
ClearRegistry(m) ==
    [m EXCEPT !.acquirers = <<>>, !.acquiring_states = EmptyMap, !.created_for = EmptyMap]

CameraBase_disconnect(m) ==
    UNION {UNION {{IF t.ok
                   THEN Return([t.m EXCEPT !.initialized = FALSE], NoValue)
                   ELSE Raise(t.m, "ConnectionError")
                   : t \in Transport(ClearRegistry(m2), "reset", 0, None)}
                  : m2 \in DestroyAll(m1, m1.acquirers)}
           : m1 \in StopActive(m, m.acquirers)}

\* faulty variant of start_acquisition: an acquirer already acquiring is started again
start_acquisition_NoSkip(m, acquirer_index) ==
    IF m.acquirers = <<>> THEN {Raise(m, "CameraError")}
    ELSE IF acquirer_index >= Len(m.acquirers) THEN {Raise(m, "AcquisitionError")}
    ELSE IF ~IndexInList(m.acquirers, acquirer_index) THEN {Raise(m, "IndexError")}
    ELSE LET ia == ListAt(m.acquirers, acquirer_index)
         IN  {IF t.ok
              THEN Return([t.m EXCEPT !.acquiring_states = DictPut(@, ia, TRUE)], NoValue)
              ELSE Raise(t.m, "AcquisitionError")
              : t \in Transport(m, "start_image_acquirer", ia, None)}

CameraBase_start_acquisition(m, acquirer_index) ==
    IF m.acquirers = <<>> THEN {Raise(m, "CameraError")}
    ELSE IF acquirer_index >= Len(m.acquirers) THEN {Raise(m, "AcquisitionError")}
    ELSE IF ~IndexInList(m.acquirers, acquirer_index) THEN {Raise(m, "IndexError")}
    ELSE LET ia == ListAt(m.acquirers, acquirer_index)
         IN  IF IsAcquiring(m, ia) THEN {Return(m, NoValue)}
             ELSE {IF t.ok
                   THEN Return([t.m EXCEPT !.acquiring_states = DictPut(@, ia, TRUE)], NoValue)
                   ELSE Raise(t.m, "AcquisitionError")
                   : t \in Transport(m, "start_image_acquirer", ia, None)}

\* faulty variant of stop_acquisition: the acquirer is marked idle before the
\* transport call, so a failed stop leaves it tracked as not acquiring
stop_acquisition_MarksFirst(m, acquirer_index) ==
    IF m.acquirers = <<>> THEN {Raise(m, "CameraError")}
    ELSE IF acquirer_index >= Len(m.acquirers) THEN {Raise(m, "AcquisitionError")}
    ELSE IF ~IndexInList(m.acquirers, acquirer_index) THEN {Raise(m, "IndexError")}
    ELSE LET ia == ListAt(m.acquirers, acquirer_index)
         IN  IF ~IsAcquiring(m, ia) THEN {Return(m, NoValue)}
             ELSE {IF t.ok
                   THEN Return([t.m EXCEPT !.acquiring_states = DictPut(@, ia, FALSE)], NoValue)
                   ELSE Raise([t.m EXCEPT !.acquiring_states = DictPut(@, ia, FALSE)],
                              "AcquisitionError")
                   : t \in Transport(m, "stop_image_acquirer", ia, None)}

CameraBase_stop_acquisition(m, acquirer_index) ==
    IF m.acquirers = <<>> THEN {Raise(m, "CameraError")}
    ELSE IF acquirer_index >= Len(m.acquirers) THEN {Raise(m, "AcquisitionError")}
    ELSE IF ~IndexInList(m.acquirers, acquirer_index) THEN {Raise(m, "IndexError")}
    ELSE LET ia == ListAt(m.acquirers, acquirer_index)
         IN  IF ~IsAcquiring(m, ia) THEN {Return(m, NoValue)}
             ELSE {IF t.ok
                   THEN Return([t.m EXCEPT !.acquiring_states = DictPut(@, ia, FALSE)], NoValue)
                   ELSE Raise(t.m, "AcquisitionError")
                   : t \in Transport(m, "stop_image_acquirer", ia, None)}

\* faulty variant of get_frame: the fetch is made whether or not the acquirer is
\* tracked as acquiring
get_frame_NoStateCheck(m, acquirer_index) ==
    IF m.acquirers = <<>> THEN {Raise(m, "CameraError")}
    ELSE IF acquirer_index >= Len(m.acquirers) THEN {Raise(m, "AcquisitionError")}
    ELSE IF ~IndexInList(m.acquirers, acquirer_index) THEN {Raise(m, "IndexError")}
    ELSE LET ia == ListAt(m.acquirers, acquirer_index)
         IN  {IF t.ok THEN Return(t.m, [frame |-> m.created_for[ia]])
              ELSE IF strict THEN Raise(t.m, "AcquisitionError")
              ELSE Return(t.m, [frame |-> None])
              : t \in Transport(m, "fetch_from_acquirer", ia, None)}

\* The frame a fetch on ia delivers is identified by the device ia was created for.
CameraBase_get_frame(m, acquirer_index) ==
    IF m.acquirers = <<>> THEN {Raise(m, "CameraError")}
    ELSE IF acquirer_index >= Len(m.acquirers) THEN {Raise(m, "AcquisitionError")}
    ELSE IF ~IndexInList(m.acquirers, acquirer_index) THEN {Raise(m, "IndexError")}
    ELSE LET ia == ListAt(m.acquirers, acquirer_index)
         IN  IF ~IsAcquiring(m, ia) THEN {Raise(m, "CameraError")}
             ELSE {IF t.ok THEN Return(t.m, [frame |-> m.created_for[ia]])
                   ELSE IF strict THEN Raise(t.m, "AcquisitionError")
                   ELSE Return(t.m, [frame |-> None])
                   : t \in Transport(m, "fetch_from_acquirer", ia, None)}

CameraBase_set_parameter(m, param_name, acquirer_index) ==
    IF m.acquirers = <<>> THEN {Raise(m, "CameraError")}
    ELSE IF acquirer_index >= Len(m.acquirers) THEN {Raise(m, "ParameterError")}
    ELSE IF ~IndexInList(m.acquirers, acquirer_index)
         THEN {IF strict THEN Raise(m, "ParameterError") ELSE Return(m, NoValue)}
    ELSE {IF t.ok \/ ~strict THEN Return(t.m, NoValue) ELSE Raise(t.m, "ParameterError")
          : t \in Transport(m, "set_node_value", ListAt(m.acquirers, acquirer_index), param_name)}

\* faulty variant of get_parameter: a failure is raised whatever self.strict is
get_parameter_AlwaysRaises(m, param_name, acquirer_index) ==
    IF m.acquirers = <<>> THEN {Raise(m, "CameraError")}
    ELSE IF acquirer_index >= Len(m.acquirers) THEN {Raise(m, "ParameterError")}
    ELSE IF ~IndexInList(m.acquirers, acquirer_index) THEN {Raise(m, "ParameterError")}
    ELSE {IF t.ok THEN Return(t.m, [value |-> param_name]) ELSE Raise(t.m, "ParameterError")
          : t \in Transport(m, "get_node_value", ListAt(m.acquirers, acquirer_index), param_name)}

CameraBase_get_parameter(m, param_name, acquirer_index) ==
    IF m.acquirers = <<>> THEN {Raise(m, "CameraError")}
    ELSE IF acquirer_index >= Len(m.acquirers) THEN {Raise(m, "ParameterError")}
    ELSE IF ~IndexInList(m.acquirers, acquirer_index)
         THEN {IF strict THEN Raise(m, "ParameterError") ELSE Return(m, [value |-> None])}
    ELSE {IF t.ok THEN Return(t.m, [value |-> param_name])
          ELSE IF strict THEN Raise(t.m, "ParameterError")
          ELSE Return(t.m, [value |-> None])
          : t \in Transport(m, "get_node_value", ListAt(m.acquirers, acquirer_index), param_name)}

----------------------------------------------------------------------------
(* CameraATSensors3D (src/src/vendors/at_sensors_3d.py) *)

\* _get_search_key: the selector is identified by its user_defined_name
get_search_key(m, sensor_id) ==
    IF sensor_id = None THEN {Raise(m, "CameraError")} ELSE {Return(m, [key |-> sensor_id])}

\* super().connect(device_selector=self._get_search_key(self.vendor_str, sensor_id))
ConnectSensor(m, sensor_id) ==
    LET key == get_search_key(m, sensor_id)
    IN  Abrupt(key) \cup UNION {CameraBase_connect(k.m, k.val.key) : k \in Normal(key)}

\* faulty variant of the topology branches: dual_sensor connects the master first
ConnectTopology_MasterFirst(m) ==
    IF topology = SingleSensor
    THEN Returning(ConnectSensor(m, id_sensor1), NoValue)
    ELSE IF topology = DualSensor
    THEN LET master == ConnectSensor(m, id_sensor1)
         IN  Abrupt(master)
             \cup UNION {Returning(ConnectSensor(r.m, id_sensor2), NoValue) : r \in Normal(master)}
    ELSE {Raise(m, "CameraError")}

\* the topology branches of connect, on the fields m left by the clearing step
ConnectTopology(m) ==
    IF topology = SingleSensor
    THEN Returning(ConnectSensor(m, id_sensor1), NoValue)
    ELSE IF topology = DualSensor
    THEN LET slave == ConnectSensor(m, id_sensor2)
         IN  Abrupt(slave)
             \cup UNION {Returning(ConnectSensor(r.m, id_sensor1), NoValue) : r \in Normal(slave)}
    ELSE {Raise(m, "CameraError")}

\* faulty variant of connect: the previous acquirers are not cleared
connect_KeepsPrevious(m) == ConnectTopology(m)

CameraATSensors3D_connect(m) ==
    LET cleared == IF m.acquirers # <<>> THEN CameraBase_disconnect(m)
                   ELSE {Return(m, NoValue)}
    IN  Abrupt(cleared) \cup UNION {ConnectTopology(d.m) : d \in Normal(cleared)}

\* faulty variant of start_acquisition: dual_sensor starts only acquirer_index
start_acquisition_UsesIndex(m, acquirer_index) ==
    IF topology = SingleSensor THEN CameraBase_start_acquisition(m, acquirer_index)
    ELSE IF Len(m.acquirers) < 2 THEN {Raise(m, "CameraError")}
    ELSE CameraBase_start_acquisition(m, acquirer_index)

CameraATSensors3D_start_acquisition(m, acquirer_index) ==
    IF topology = SingleSensor THEN CameraBase_start_acquisition(m, acquirer_index)
    ELSE IF Len(m.acquirers) < 2 THEN {Raise(m, "CameraError")}
    ELSE LET first == CameraBase_start_acquisition(m, 0)
         IN  Abrupt(first)
             \cup UNION {CameraBase_start_acquisition(r.m, 1) : r \in Normal(first)}

CameraATSensors3D_stop_acquisition(m, acquirer_index) ==
    IF topology = SingleSensor THEN CameraBase_stop_acquisition(m, acquirer_index)
    ELSE IF Len(m.acquirers) < 2 THEN {Raise(m, "CameraError")}
    ELSE LET first == CameraBase_stop_acquisition(m, 0)
         IN  Abrupt(first)
             \cup UNION {CameraBase_stop_acquisition(r.m, 1) : r \in Normal(first)}

CameraATSensors3D_get_frames(m) ==
    IF topology = DualSensor
    THEN IF Len(m.acquirers) < 2 THEN {Raise(m, "CameraError")}
         ELSE LET primary == CameraBase_get_frame(m, 0)
              IN  Abrupt(primary)
                  \cup UNION {LET secondary == CameraBase_get_frame(p.m, 1)
                              IN  Abrupt(secondary)
                                  \cup {Return(s.m, [primary_frame |-> p.val.frame,
                                                     secondary_frame |-> s.val.frame])
                                        : s \in Normal(secondary)}
                              : p \in Normal(primary)}
    ELSE LET primary == CameraBase_get_frame(m, 0)
         IN  Abrupt(primary)
             \cup {Return(p.m, [primary_frame |-> p.val.frame]) : p \in Normal(primary)}

\* the try block of capture_frames
CaptureBody(m) ==
    IF Len(m.acquirers) < 2 THEN {Raise(m, "CameraError")}
    ELSE LET started == CameraATSensors3D_start_acquisition(m, 0)
             fetched == Abrupt(started)
                        \cup UNION {CameraATSensors3D_get_frames(a.m) : a \in Normal(started)}
         IN  Abrupt(fetched)
             \cup UNION {Returning(CameraATSensors3D_stop_acquisition(f.m, 0), f.val)
                         : f \in Normal(fetched)}

\* faulty variant of capture_frames: the except block raises without stopping
capture_frames_NoCleanup(m) ==
    Normal(CaptureBody(m)) \cup Raising(Abrupt(CaptureBody(m)), "CameraError")

CameraATSensors3D_capture_frames(m) ==
    Normal(CaptureBody(m))
    \cup UNION {Raising(CameraATSensors3D_stop_acquisition(e.m, 0), "CameraError")
                : e \in Abrupt(CaptureBody(m))}

\* faulty variant of the try block of acquire_frame: the frame is returned without
\* stopping the acquisition
AcquireBody_NoStop(m, acquirer_index) ==
    LET started == CameraATSensors3D_start_acquisition(m, acquirer_index)
    IN  Abrupt(started)
        \cup UNION {CameraBase_get_frame(a.m, acquirer_index) : a \in Normal(started)}

\* CameraBase.acquire_frame; self.start_acquisition and self.stop_acquisition are
\* the methods of the object's class, CameraATSensors3D.  The try block:
AcquireBody(m, acquirer_index) ==
    LET started == CameraATSensors3D_start_acquisition(m, acquirer_index)
        fetched == Abrupt(started)
                   \cup UNION {CameraBase_get_frame(a.m, acquirer_index) : a \in Normal(started)}
    IN  Abrupt(fetched)
        \cup UNION {Returning(CameraATSensors3D_stop_acquisition(f.m, acquirer_index), f.val)
                    : f \in Normal(fetched)}

\* the inner try of the except block: stop acquirer_index if it is tracked as acquiring
AcquireCleanup(m, acquirer_index) ==
    IF acquirer_index < Len(m.acquirers)
    THEN IF ~IndexInList(m.acquirers, acquirer_index) THEN {Raise(m, "IndexError")}
         ELSE IF IsAcquiring(m, ListAt(m.acquirers, acquirer_index))
         THEN CameraATSensors3D_stop_acquisition(m, acquirer_index)
         ELSE {Return(m, NoValue)}
    ELSE {Return(m, NoValue)}

CameraBase_acquire_frame(m, acquirer_index) ==
    Normal(AcquireBody(m, acquirer_index))
    \cup UNION {Raising(AcquireCleanup(e.m, acquirer_index), "CameraError")
                : e \in Abrupt(AcquireBody(m, acquirer_index))}

\* The context manager and destructor methods class CameraBase defines: the
\* definitions of __enter__, __exit__ and __del__ are commented out, and
\* CameraATSensors3D defines none either.
CameraBase_special_methods == {}

\* a method of the camera is entered: noted in the call log
Enter(m, name) ==
    [m EXCEPT !.calls = Append(@, [call |-> name, ia |-> 0, node |-> None, ok |-> TRUE])]

\* the commented-out __exit__ and __del__ body:
\* if self.acquiring: self.stop_acquisition()
\* if self.connected: self.disconnect()
ExitBody(m) ==
    LET stopped == IF acquiring(m)
                   THEN CameraATSensors3D_stop_acquisition(Enter(m, "stop_acquisition()"), 0)
                   ELSE {Return(m, NoValue)}
    IN  Abrupt(stopped)
        \cup UNION {IF connected(r.m) THEN CameraBase_disconnect(Enter(r.m, "disconnect()"))
                    ELSE {Return(r.m, NoValue)}
                    : r \in Normal(stopped)}

\* `with camera: pass`.  The with statement looks __enter__ and __exit__ up on
\* the class before it runs anything; a class without them is rejected with
\* TypeError (AttributeError before Python 3.11).
CameraBase_with(m) ==
    IF ~({"__enter__", "__exit__"} \subseteq CameraBase_special_methods)
    THEN {Raise(m, "TypeError"), Raise(m, "AttributeError")}
    ELSE LET entered == IF ~connected(m)
                        THEN CameraATSensors3D_connect(Enter(m, "connect()"))
                        ELSE {Return(m, NoValue)}
         IN  Abrupt(entered) \cup UNION {ExitBody(r.m) : r \in Normal(entered)}

\* camera.__del__()
CameraBase_del(m) ==
    IF "__del__" \notin CameraBase_special_methods
    THEN {Raise(m, "AttributeError")}
    ELSE {Return(r.m, NoValue) : r \in ExitBody(m)}

\* vendor shortcuts: one set_parameter / get_parameter call on the node of the key
CameraATSensors3D_set_exposure_time(m, acquirer_index) ==
    CameraBase_set_parameter(m, Node("exposure"), acquirer_index)

CameraATSensors3D_get_exposure_time(m, acquirer_index) ==
    CameraBase_get_parameter(m, Node("exposure"), acquirer_index)

CameraATSensors3D_set_gain(m, acquirer_index) ==
    CameraBase_set_parameter(m, Node("gain"), acquirer_index)

CameraATSensors3D_get_gain(m, acquirer_index) ==
    CameraBase_get_parameter(m, Node("gain"), acquirer_index)

CameraATSensors3D_set_pixel_format(m, acquirer_index) ==
    CameraBase_set_parameter(m, Node("pixel_format"), acquirer_index)

CameraATSensors3D_get_pixel_format(m, acquirer_index) ==
    CameraBase_get_parameter(m, Node("pixel_format"), acquirer_index)

\* self.set_parameter(self.NODES[key], ...) for each key in turn: an exception of
\* one statement propagates and the statements after it do not run
RECURSIVE SetEach(_, _, _)
SetEach(m, keys, acquirer_index) ==
    IF keys = <<>> THEN {Return(m, NoValue)}
    ELSE LET first == CameraBase_set_parameter(m, Node(Head(keys)), acquirer_index)
         IN  Abrupt(first)
             \cup UNION {SetEach(r.m, Tail(keys), acquirer_index) : r \in Normal(first)}

\* faulty variant of set_roi: the offsets are written before the size
set_roi_OffsetsFirst(m, acquirer_index) ==
    SetEach(m, <<"offset_x", "offset_y", "width", "height">>, acquirer_index)

CameraATSensors3D_set_roi(m, acquirer_index) ==
    SetEach(m, <<"width", "height", "offset_x", "offset_y">>, acquirer_index)

\* the entries {key: self.get_parameter(self.NODES[key], ...)} of a dict display,
\* evaluated in order after the entries got
RECURSIVE GetEach(_, _, _, _)
GetEach(m, keys, acquirer_index, got) ==
    IF keys = <<>> THEN {Return(m, got)}
    ELSE LET first == CameraBase_get_parameter(m, Node(Head(keys)), acquirer_index)
         IN  Abrupt(first)
             \cup UNION {GetEach(r.m, Tail(keys), acquirer_index,
                                 DictPut(got, Head(keys), r.val.value))
                         : r \in Normal(first)}

CameraATSensors3D_get_roi(m, acquirer_index) ==
    GetEach(m, <<"width", "height", "offset_x", "offset_y">>, acquirer_index, NoValue)

----------------------------------------------------------------------------
(* GenICam parameter dictionaries *)

\* A parameter dictionary {node name: value} is the list of its node names, in
\* dictionary order.
ParamDicts ==
    LET In(T) == [i \in 1 .. MaxParams |-> NODES[i] \in T]
        RECURSIVE Pick(_, _)
        Pick(i, T) == IF i > MaxParams THEN <<>>
                      ELSE IF In(T)[i] THEN <<NODES[i]>> \o Pick(i + 1, T)
                      ELSE Pick(i + 1, T)
    IN  {Pick(1, T) : T \in SUBSET Range(SubSeq(NODES, 1, MaxParams))}

\* The dictionary passed to apply_genicam_parameters: its "sensor_1"/"sensor_2"
\* entries (sensors), or, without such entries, its node entries (nodes).
NestedDicts ==
    UNION {{[sensors |-> f, nodes |-> <<>>] : f \in [K -> ParamDicts]}
           : K \in (SUBSET {"sensor_1", "sensor_2"}) \ {{}}}
FlatDicts == {[sensors |-> EmptyMap, nodes |-> ps] : ps \in ParamDicts}
GenicamDicts == NestedDicts \cup FlatDicts
NoDict == [sensors |-> EmptyMap, nodes |-> <<>>]

\* ConfigLoader.get_device_genicam: "sensor_1" always, "sensor_2" in dual_sensor
get_device_genicam(topo, nodes1, nodes2) ==
    [sensors |-> IF topo = DualSensor
                 THEN [k \in {"sensor_1", "sensor_2"} |-> IF k = "sensor_1" THEN nodes1 ELSE nodes2]
                 ELSE [k \in {"sensor_1"} |-> nodes1],
     nodes |-> <<>>]

\* CameraBase.apply_genicam_parameters: set_parameter for every entry, in order
RECURSIVE CameraBase_apply_genicam_parameters(_, _, _)
CameraBase_apply_genicam_parameters(m, params, acquirer_index) ==
    IF params = <<>> THEN {Return(m, NoValue)}
    ELSE LET first == CameraBase_set_parameter(m, Head(params), acquirer_index)
         IN  Abrupt(first)
             \cup UNION {CameraBase_apply_genicam_parameters(r.m, Tail(params), acquirer_index)
                         : r \in Normal(first)}

\* try: super().apply_genicam_parameters(params, index)
\* except ParameterError: if self.strict: raise CameraError
ApplyToSensor(m, params, index) ==
    UNION {IF r.exc = "ParameterError"
           THEN {IF strict THEN Raise(r.m, "CameraError") ELSE Return(r.m, NoValue)}
           ELSE {r}
           : r \in CameraBase_apply_genicam_parameters(m, params, index)}

CameraATSensors3D_apply_genicam_parameters(m, genicam_dict, acquirer_index) ==
    IF ~connected(m) THEN {Raise(m, "CameraError")}
    ELSE IF genicam_dict = NoDict THEN {Return(m, NoValue)}
    ELSE IF "sensor_1" \in DOMAIN genicam_dict.sensors
    THEN IF genicam_dict.sensors["sensor_1"] # <<>>
         THEN ApplyToSensor(m, genicam_dict.sensors["sensor_1"], 0)
         ELSE {Return(m, NoValue)}
    ELSE IF "sensor_2" \in DOMAIN genicam_dict.sensors
    THEN IF genicam_dict.sensors["sensor_2"] # <<>>
         THEN IF Len(m.acquirers) < 2 THEN {Return(m, NoValue)}
              ELSE ApplyToSensor(m, genicam_dict.sensors["sensor_2"], 1)
         ELSE {Return(m, NoValue)}
    ELSE CameraBase_apply_genicam_parameters(m, genicam_dict.nodes, acquirer_index)

----------------------------------------------------------------------------
(* TransportHarvesters (src/src/base/transport_harvesters.py) *)

\* the Harvester object held in self.harvester
TheHarvester == "Harvester"

\* self.image_acquirer = None (the handles of ImageAcquirer objects are positive)
NoAcquirer == 0

\* the idx field of a logged SDK call other than create
NoIndex == 0 - 1

\* the devices a GenTL producer can report: id_, serial_number, user_defined_name
SlaveDevice == [id_ |-> "ID_S", serial_number |-> "SN_S", user_defined_name |-> SlaveName]
MasterDevice == [id_ |-> "ID_M", serial_number |-> "SN_M", user_defined_name |-> MasterName]

\* harvester.device_info_list: no device, one device, two devices
DeviceLists == {<<>>, <<SlaveDevice>>, <<SlaveDevice, MasterDevice>>}

\* A device_config dictionary: the value under each of its three keys, None for a
\* key it does not hold.
Config(name, serial, id) == [user_defined_name |-> name, serial_number |-> serial, id |-> id]

\* device_config = None or {}
NoConfig == Config(None, None, None)

\* the device_config arguments: none, one criterion that matches the first, the
\* second or no device, and two criteria of which only the second matches
DeviceConfigs ==
    {NoConfig,
     Config(SlaveName, None, None), Config(MasterName, None, None),
     Config(None, MasterDevice.serial_number, None), Config(None, None, SlaveDevice.id_),
     Config("unknown", None, None), Config("unknown", MasterDevice.serial_number, None)}

\* the condition of the matching loop of connect_device on one listed device
Matches(device_config, device) ==
    \/ device_config.user_defined_name # None
       /\ device_config.user_defined_name = device.user_defined_name
    \/ device_config.serial_number # None
       /\ device_config.serial_number = device.serial_number
    \/ device_config.id # None /\ device_config.id = device.id

\* the dictionaries list_devices builds from device_info_list
ListedDevices(infos) ==
    [i \in DOMAIN infos |-> [index |-> i - 1, id |-> infos[i].id_,
                             serial_number |-> infos[i].serial_number,
                             user_defined_name |-> infos[i].user_defined_name]]

\* A call into the Harvesters SDK (Harvester(), harvester.add_file/update/create/
\* reset, image_acquirer.start/stop/destroy): it returns or raises; either way it
\* is logged.  ia is the acquirer called or created (0 for a harvester call), idx
\* the device index given to create.
Sdk(m, call, ia, idx) ==
    {[m |-> [m EXCEPT !.calls = Append(@, [call |-> call, ia |-> ia, idx |-> idx, ok |-> ok])],
      ok |-> ok] : ok \in BOOLEAN}

\* harvester.update()
SdkUpdate(m) ==
    {IF u.ok THEN Return(u.m, NoValue) ELSE Raise(u.m, "Exception")
     : u \in Sdk(m, "update", 0, NoIndex)}

\* the try block of initialize
InitializeBody(m) ==
    UNION {IF ~h.ok THEN {Raise(h.m, "Exception")}
           ELSE UNION {IF ~a.ok THEN {Raise(a.m, "Exception")} ELSE SdkUpdate(a.m)
                       : a \in Sdk([h.m EXCEPT !.harvester = TheHarvester], "add_file", 0, NoIndex)}
           : h \in Sdk(m, "Harvester", 0, NoIndex)}

TransportHarvesters_initialize(m) ==
    IF m.harvester # None THEN {Return(m, NoValue)}
    ELSE Normal(InitializeBody(m)) \cup Raising(Abrupt(InitializeBody(m)), "CameraError")

TransportHarvesters_list_devices(m) ==
    LET ready == IF m.harvester = None THEN TransportHarvesters_initialize(m)
                 ELSE {Return(m, NoValue)}
        updated == Abrupt(ready) \cup UNION {SdkUpdate(r.m) : r \in Normal(ready)}
    IN  Abrupt(updated)
        \cup {Return([u.m EXCEPT !.devices_list = ListedDevices(device_info_list)],
                     [devices |-> ListedDevices(device_info_list)])
              : u \in Normal(updated)}

\* self.image_acquirer = self.harvester.create(idx)
Create(m, idx) ==
    LET ia == NewHandle({m.image_acquirer} \ {NoAcquirer})
    IN  {IF c.ok THEN Return([c.m EXCEPT !.image_acquirer = ia], [ia |-> ia])
         ELSE Raise(c.m, "Exception")
         : c \in Sdk(m, "create", ia, idx)}

\* the matching loop of connect_device: the first device that matches is created,
\* self._is_acquiring is set and the acquirer returned
ConnectMatching(m, device_config, devices) ==
    LET matching == {i \in DOMAIN devices : Matches(device_config, devices[i])}
    IN  IF matching = {} THEN {Raise(m, "CameraError")}
        ELSE {IF c.exc = "none" THEN Return([c.m EXCEPT !.is_acquiring = TRUE], c.val) ELSE c
              : c \in Create(m, (CHOOSE i \in matching : \A j \in matching : i <= j) - 1)}

\* the try block of connect_device
ConnectBody(m, device_config) ==
    LET ready == IF m.harvester = None THEN TransportHarvesters_initialize(m)
                 ELSE {Return(m, NoValue)}
        updated == Abrupt(ready) \cup UNION {SdkUpdate(r.m) : r \in Normal(ready)}
    IN  Abrupt(updated)
        \cup UNION {IF device_info_list = <<>> THEN {Raise(u.m, "CameraError")}
                    ELSE IF device_config = NoConfig THEN Create(u.m, 0)
                    ELSE LET listed == TransportHarvesters_list_devices(u.m)
                         IN  Abrupt(listed)
                             \cup UNION {ConnectMatching(l.m, device_config, l.val.devices)
                                         : l \in Normal(listed)}
                    : u \in Normal(updated)}

TransportHarvesters_connect_device(m, device_config) ==
    IF m.is_connected THEN {Return(m, [ia |-> m.image_acquirer])}
    ELSE Normal(ConnectBody(m, device_config))
         \cup Raising(Abrupt(ConnectBody(m, device_config)), "CameraError")

\* faulty variant of start_acquisition: no check that a device is connected
start_acquisition_NoConnectedCheck(m) ==
    IF m.is_acquiring THEN {Return(m, NoValue)}
    ELSE IF m.image_acquirer = NoAcquirer THEN {Raise(m, "CameraError")}
    ELSE {IF s.ok THEN Return([s.m EXCEPT !.is_acquiring = TRUE], NoValue)
          ELSE Raise(s.m, "CameraError")
          : s \in Sdk(m, "start", m.image_acquirer, NoIndex)}

TransportHarvesters_start_acquisition(m) ==
    IF ~m.is_connected THEN {Raise(m, "CameraError")}
    ELSE IF m.is_acquiring THEN {Return(m, NoValue)}
    ELSE IF m.image_acquirer = NoAcquirer THEN {Raise(m, "CameraError")}
    ELSE {IF s.ok THEN Return([s.m EXCEPT !.is_acquiring = TRUE], NoValue)
          ELSE Raise(s.m, "CameraError")
          : s \in Sdk(m, "start", m.image_acquirer, NoIndex)}

TransportHarvesters_stop_acquisition(m) ==
    IF ~m.is_connected THEN {Raise(m, "CameraError")}
    ELSE IF ~m.is_acquiring THEN {Return(m, NoValue)}
    ELSE IF m.image_acquirer = NoAcquirer THEN {Raise(m, "CameraError")}
    ELSE {IF s.ok THEN Return([s.m EXCEPT !.is_acquiring = FALSE], NoValue)
          ELSE Raise(s.m, "CameraError")
          : s \in Sdk(m, "stop", m.image_acquirer, NoIndex)}

\* the try block of get_frame: the fetch raises, or delivers a buffer without
\* payload, or a buffer whose components are returned
GetFrameBody(m) ==
    IF m.image_acquirer = NoAcquirer THEN {Raise(m, "AssertionError")}
    ELSE UNION {IF ~f.ok THEN {Raise(f.m, "Exception")}
                ELSE {Raise(f.m, "CameraError"), Return(f.m, [components |-> m.image_acquirer])}
                : f \in Sdk(m, "fetch", m.image_acquirer, NoIndex)}

TransportHarvesters_get_frame(m) ==
    IF ~m.is_connected THEN {Raise(m, "CameraError")}
    ELSE IF ~m.is_acquiring THEN {Raise(m, "CameraError")}
    ELSE Normal(GetFrameBody(m)) \cup Raising(Abrupt(GetFrameBody(m)), "CameraError")

\* the try block of set_node_value: the node lookup raises, or finds no writable
\* node, or the node is written, which can raise
SetNodeBody(m, node_name) ==
    UNION {IF ~n.ok THEN {Raise(n.m, "Exception")}
           ELSE {Raise(n.m, "CameraError")}
                \cup {IF w.ok THEN Return(w.m, NoValue) ELSE Raise(w.m, "Exception")
                      : w \in Sdk(n.m, "node.value=", m.image_acquirer, NoIndex)}
           : n \in Sdk(m, "get_node", m.image_acquirer, NoIndex)}

TransportHarvesters_set_node_value(m, node_name) ==
    IF m.image_acquirer = NoAcquirer THEN {Raise(m, "CameraError")}
    ELSE Normal(SetNodeBody(m, node_name))
         \cup Raising(Abrupt(SetNodeBody(m, node_name)), "CameraError")

\* the try block of get_node_value: the node lookup raises, or finds no readable
\* node, or the node is read, which can raise
GetNodeBody(m, node_name) ==
    UNION {IF ~n.ok THEN {Raise(n.m, "Exception")}
           ELSE {Raise(n.m, "CameraError")}
                \cup {IF v.ok THEN Return(v.m, [value |-> node_name]) ELSE Raise(v.m, "Exception")
                      : v \in Sdk(n.m, "node.value", m.image_acquirer, NoIndex)}
           : n \in Sdk(m, "get_node", m.image_acquirer, NoIndex)}

TransportHarvesters_get_node_value(m, node_name) ==
    IF m.image_acquirer = NoAcquirer THEN {Raise(m, "CameraError")}
    ELSE Normal(GetNodeBody(m, node_name))
         \cup Raising(Abrupt(GetNodeBody(m, node_name)), "CameraError")

\* if self.image_acquirer: destroy it and forget it
DestroyAcquirer(m) ==
    IF m.image_acquirer = NoAcquirer THEN {Return(m, NoValue)}
    ELSE {IF d.ok THEN Return([d.m EXCEPT !.image_acquirer = NoAcquirer], NoValue)
          ELSE Raise(d.m, "Exception")
          : d \in Sdk(m, "destroy", m.image_acquirer, NoIndex)}

\* if self.harvester: reset it and forget it
ResetHarvester(m) ==
    IF m.harvester = None THEN {Return(m, NoValue)}
    ELSE {IF d.ok THEN Return([d.m EXCEPT !.harvester = None], NoValue)
          ELSE Raise(d.m, "Exception")
          : d \in Sdk(m, "reset", 0, NoIndex)}

\* the try block of disconnect_device
DisconnectBody(m) ==
    LET stopped == IF m.is_acquiring THEN TransportHarvesters_stop_acquisition(m)
                   ELSE {Return(m, NoValue)}
        destroyed == Abrupt(stopped) \cup UNION {DestroyAcquirer(r.m) : r \in Normal(stopped)}
        reset == Abrupt(destroyed) \cup UNION {ResetHarvester(r.m) : r \in Normal(destroyed)}
    IN  Abrupt(reset)
        \cup {Return([r.m EXCEPT !.is_acquiring = FALSE], NoValue) : r \in Normal(reset)}

TransportHarvesters_disconnect_device(m) ==
    Normal(DisconnectBody(m)) \cup Raising(Abrupt(DisconnectBody(m)), "CameraError")

\* A call of method `name` made by another method of the transport, with outcomes
\* S: the call is logged after the SDK calls it made, with the acquirer it returned.
LogMethod(S, name) ==
    {[r EXCEPT !.m.calls = Append(@, [call |-> name,
                                      ia |-> IF "ia" \in DOMAIN r.val THEN r.val.ia ELSE NoAcquirer,
                                      idx |-> NoIndex, ok |-> r.exc = "none"])]
     : r \in S}

\* the body of a with block: it returns or raises, and is logged
WithBody(m) ==
    {Return([m EXCEPT !.calls = Append(@, [call |-> "body", ia |-> NoAcquirer,
                                           idx |-> NoIndex, ok |-> TRUE])], NoValue),
     Raise([m EXCEPT !.calls = Append(@, [call |-> "body", ia |-> NoAcquirer,
                                          idx |-> NoIndex, ok |-> FALSE])], "BodyError")}

\* the exit step of a with block whose body ended with outcome b: an exception of
\* the exit call replaces the body's, otherwise the body's outcome stands
AfterBody(b, exits) ==
    Abrupt(exits)
    \cup {IF b.exc = "none" THEN Return(x.m, NoValue) ELSE Raise(x.m, b.exc) : x \in Normal(exits)}

\* with transport.acquisition_context(): body
TransportHarvesters_acquisition_context(m) ==
    LET started == LogMethod(TransportHarvesters_start_acquisition(m), "start_acquisition()")
    IN  Abrupt(started)
        \cup UNION {UNION {AfterBody(b, LogMethod(TransportHarvesters_stop_acquisition(b.m),
                                                  "stop_acquisition()"))
                           : b \in WithBody(a.m)}
                    : a \in Normal(started)}

\* with transport: body   (__enter__, the body, __exit__)
TransportHarvesters_with(m) ==
    LET entered == IF ~m.is_connected
                   THEN LogMethod(TransportHarvesters_connect_device(m, NoConfig),
                                  "connect_device()")
                   ELSE {Return(m, NoValue)}
    IN  Abrupt(entered)
        \cup UNION {UNION {AfterBody(b, LogMethod(TransportHarvesters_disconnect_device(b.m),
                                                  "disconnect_device()"))
                           : b \in WithBody(a.m)}
                    : a \in Normal(entered)}

\* No connect_device has returned since construction or the last disconnect_device.
NewSession ==
    [connected |-> FALSE, returned |-> {}, creates |-> 0, running |-> FALSE, alternating |-> TRUE]

\* The session after the SDK calls of one method, in call order: creates counts the
\* create calls that returned (2 stands for two or more), running tells whether
\* the last start or stop that returned was a start, and alternating is cleared by
\* a returned start that follows a start or a returned stop that follows no start.
\* A connect_device or disconnect_device called by a with block counts as one
\* called directly.
RECURSIVE SessionCalls(_, _)
SessionCalls(s, calls) ==
    IF calls = <<>> THEN s
    ELSE LET c == Head(calls)
             s1 == IF c.call = "disconnect_device()"
                   THEN [NewSession EXCEPT !.alternating = s.alternating]
                   ELSE IF ~c.ok THEN s
                   ELSE IF c.call = "create"
                   THEN [s EXCEPT !.creates = IF @ < 2 THEN @ + 1 ELSE @]
                   ELSE IF c.call = "start"
                   THEN [s EXCEPT !.running = TRUE, !.alternating = @ /\ ~s.running]
                   ELSE IF c.call = "stop"
                   THEN [s EXCEPT !.running = FALSE, !.alternating = @ /\ s.running]
                   ELSE IF c.call = "connect_device()"
                   THEN [s EXCEPT !.connected = TRUE, !.returned = @ \cup {c.ia}]
                   ELSE s
         IN  SessionCalls(s1, Tail(calls))

\* The session after method op ended with outcome r: a connect_device that returns
\* adds the acquirer it returned, every disconnect_device opens a new session.
SessionAfter(s, op, r) ==
    LET s1 == SessionCalls(s, r.m.calls)
    IN  IF op = "disconnect_device" THEN [NewSession EXCEPT !.alternating = s1.alternating]
        ELSE IF op = "connect_device" /\ r.exc = "none"
        THEN [s1 EXCEPT !.connected = TRUE, !.returned = @ \cup {r.val.ia}]
        ELSE s1

\* the transport's fields at the start of a call, with an empty SDK log
TransportSelf ==
    [harvester |-> harvester, image_acquirer |-> image_acquirer,
     devices_list |-> devices_list, is_connected |-> is_connected,
     is_acquiring |-> is_acquiring, calls |-> <<>>]

\* TransportHarvesters.__init__
TransportNew ==
    /\ harvester = None
    /\ image_acquirer = NoAcquirer
    /\ devices_list = <<>>
    /\ is_connected = FALSE
    /\ is_acquiring = FALSE
    /\ session = NewSession
    /\ tlast = [op |-> "__init__", device_config |-> NoConfig,
                pre |-> [harvester |-> None, image_acquirer |-> NoAcquirer, devices_list |-> <<>>,
                         is_connected |-> FALSE, is_acquiring |-> FALSE, calls |-> <<>>],
                pre_session |-> NewSession,
                exc |-> "none", val |-> NoValue, calls |-> <<>>]

----------------------------------------------------------------------------
(* The public API (src/harvestersSDK_api.py) *)

\* for param_name, value in parameters.items(): camera.set_parameter(...)
RECURSIVE ConfigureLoop(_, _, _)
ConfigureLoop(m, parameters, acquirer_index) ==
    IF parameters = <<>> THEN {Return(m, NoValue)}
    ELSE LET first == CameraBase_set_parameter(m, Head(parameters), acquirer_index)
         IN  Abrupt(first)
             \cup UNION {ConfigureLoop(r.m, Tail(parameters), acquirer_index)
                         : r \in Normal(first)}

\* configure_camera: try: the loop; except Exception: raise CameraError
configure_camera(m, parameters, acquirer_index) ==
    {IF r.exc = "none" THEN r ELSE Raise(r.m, "CameraError")
     : r \in ConfigureLoop(m, parameters, acquirer_index)}

\* The strings a configuration entry holds for vendor, scanType and topology;
\* Absent is a key the entry does not have, None a JSON null.
Absent == "absent"
VendorValues == {None, "AT-Automation Technology GmbH", "at-automation technology gmbh", "Hikrobot"}
ScanTypeValues == {None, "linescan3d", "LineScan3D", "linescan2d"}
TopologyValues == {Absent, None, SingleSensor, DualSensor, "Dual_Sensor"}

\* str.lower() on these strings
lower(s) ==
    CASE s = "AT-Automation Technology GmbH" -> "at-automation technology gmbh"
      [] s = "Hikrobot" -> "hikrobot"
      [] s = "LineScan3D" -> "linescan3d"
      [] s = "Dual_Sensor" -> DualSensor
      [] OTHER -> s

\* _norm: (s or "").strip().lower()
norm(s) == IF s = None THEN "" ELSE lower(s)

CLASS_REGISTRY == {<<"at-automation technology gmbh", "linescan3d", DualSensor>>}

\* _pick_class: the class registered for the normalised triple, else CameraError
pick_class(vendor, scan_type, topology_) ==
    IF <<norm(vendor), norm(scan_type), norm(topology_)>> \in CLASS_REGISTRY
    THEN [exc |-> "none", val |-> [cls |-> "CameraATSensors3D"]]
    ELSE [exc |-> "CameraError", val |-> NoValue]

\* The configuration file behind config_path: whether it exists, whether it is
\* JSON, whether it names a cti path for this platform, and its entry for the
\* requested device (has_entry FALSE: no such key under "cameras").
NoEntry == [vendor |-> None, scanType |-> None, topology |-> Absent]
Entries == [vendor : VendorValues, scanType : ScanTypeValues, topology : TopologyValues]
NoFile == [path |-> FALSE, exists |-> FALSE, json |-> FALSE, cti_path |-> FALSE,
           has_entry |-> FALSE, entry |-> NoEntry]
ConfigFiles ==
    {NoFile,
     [NoFile EXCEPT !.path = TRUE],
     [NoFile EXCEPT !.path = TRUE, !.exists = TRUE]}
    \cup {[NoFile EXCEPT !.path = TRUE, !.exists = TRUE, !.json = TRUE, !.cti_path = c]
          : c \in BOOLEAN}
    \cup {[path |-> TRUE, exists |-> TRUE, json |-> TRUE, cti_path |-> c,
           has_entry |-> TRUE, entry |-> e] : c \in BOOLEAN, e \in Entries}

\* ConfigLoader.load: CameraError for a missing file; json.load raises its own
\* error for a file that is not JSON
ConfigLoader_load(file) ==
    IF ~file.exists THEN "CameraError"
    ELSE IF ~file.json THEN "JSONDecodeError"
    ELSE "none"

\* ConfigLoader.get_api_config
get_api_config(file) == IF ~file.cti_path THEN "CameraError" ELSE "none"

\* ConfigLoader.get_device_data: camera_entry.get("topology", "single_sensor").lower()
get_device_data(file) ==
    IF ~file.has_entry THEN [exc |-> "CameraError", val |-> NoValue]
    ELSE IF file.entry.topology = None THEN [exc |-> "AttributeError", val |-> NoValue]
    ELSE [exc |-> "none",
          val |-> [vendor |-> file.entry.vendor, scanType |-> file.entry.scanType,
                   topology |-> IF file.entry.topology = Absent THEN SingleSensor
                                ELSE lower(file.entry.topology)]]

\* CameraBase.__init__(self, config) and the keywords CameraATSensors3D.__init__
\* passes to it
CameraBase_init_parameters == {"config"}
super_init_keywords == {"api_config_dict", "device_data_dict", "device_genicam_dict"}

\* CameraATSensors3D.__init__: super().__init__(**keywords), then the vendor fields
CameraATSensors3D_init(device_data_dict) ==
    IF super_init_keywords # CameraBase_init_parameters
    THEN [exc |-> "TypeError", val |-> NoValue]
    ELSE [exc |-> "none",
          val |-> [camera |-> [vendor_str |-> device_data_dict.vendor,
                               scan_type |-> device_data_dict.scanType,
                               topology |-> device_data_dict.topology]]]

\* try: _pick_class(...); camera_cls(...) except Exception: raise CameraError
CreateInstance(data) ==
    LET cls == pick_class(data.vendor, data.scanType, data.topology)
        camera == CameraATSensors3D_init(data)
    IN  IF cls.exc # "none" THEN [exc |-> "CameraError", val |-> NoValue]
        ELSE IF camera.exc # "none" THEN [exc |-> "CameraError", val |-> NoValue]
        ELSE camera

\* create_camera(device_name_base, config_path).  Without a config_path the local
\* scanType is unbound when the try block reads it: UnboundLocalError, translated.
create_camera(device_name_base, file) ==
    IF device_name_base = "" THEN [exc |-> "CameraError", val |-> NoValue]
    ELSE IF ~file.path THEN [exc |-> "CameraError", val |-> NoValue]
    ELSE IF ConfigLoader_load(file) # "none"
         THEN [exc |-> ConfigLoader_load(file), val |-> NoValue]
    ELSE IF get_api_config(file) # "none"
         THEN [exc |-> get_api_config(file), val |-> NoValue]
    ELSE IF get_device_data(file).exc # "none" THEN get_device_data(file)
    ELSE CreateInstance(get_device_data(file).val)

\* get_camera_info: reads properties and fields of the camera
get_camera_info(m) ==
    {Return(m, [connected |-> connected(m), acquiring |-> acquiring(m),
                num_sensors |-> Len(m.acquirers), timeout_ms |-> timeout_ms,
                strict_mode |-> strict])}

----------------------------------------------------------------------------
(* Point clouds (src/src/utils/point_cloud_processing.py) *)

\* Lengths are kept exact as integers: the calibration constants in units of
\* 1e-4, X and Y doubled (the image centre lies on half pixels).
SCALE_Z == 625
PIXEL_TO_MM_X == 875
PIXEL_TO_MM_Z == 1955
STRETCH_Y == 8000

\* the raw range values of a pixel (0: no measurement)
RawValues == {0 - 1, 0, 1}

\* if not camera_calibration: the default dict
Calibration(cal) ==
    IF DOMAIN cal = {}
    THEN [scale_z |-> SCALE_Z, pixel_to_mm_x |-> PIXEL_TO_MM_X,
          pixel_to_mm_z |-> PIXEL_TO_MM_Z, stretch_y |-> STRETCH_Y]
    ELSE cal

\* xs, ys = np.meshgrid(...): column and row of the i-th pixel, row-major from 1
PixelX(f, i) == (i - 1) % f.width
PixelY(f, i) == (i - 1) \div f.width

\* X_mm = (xs - cx) * pixel_to_mm_x with cx = (w-1)/2, doubled
X_mm(f, cal, i) == (2 * PixelX(f, i) - (f.width - 1)) * DictGet(cal, "pixel_to_mm_x", PIXEL_TO_MM_X)

\* Y_mm = (ys - cy) * stretch_y with cy = (h-1)/2, doubled
Y_mm(f, cal, i) == (2 * PixelY(f, i) - (f.height - 1)) * DictGet(cal, "stretch_y", STRETCH_Y)

\* Z_mm = range_image * scale_z * pixel_to_mm_z
Z_mm(f, cal, i) ==
    (f.data[i] * DictGet(cal, "scale_z", SCALE_Z)) * DictGet(cal, "pixel_to_mm_z", PIXEL_TO_MM_Z)

\* one row of np.column_stack((Xv, Yv, Zv)) after Zv = -Zv and the optional Xv = -Xv
Row(f, flip_yx, cal, i) ==
    <<IF flip_yx THEN 0 - X_mm(f, cal, i) ELSE X_mm(f, cal, i), Y_mm(f, cal, i), 0 - Z_mm(f, cal, i)>>

\* faulty variant of the builder: the mask is Z_mm >= 0.0
RECURSIVE build_point_cloud_MaskNonNegative(_, _, _, _)
build_point_cloud_MaskNonNegative(f, flip_yx, cal, i) ==
    IF i > f.width * f.height THEN <<>>
    ELSE (IF Z_mm(f, cal, i) >= 0 THEN <<Row(f, flip_yx, cal, i)>> ELSE <<>>)
         \o build_point_cloud_MaskNonNegative(f, flip_yx, cal, i + 1)

\* the rows of the pixels from the i-th on that pass mask_valid = Z_mm > 0.0
RECURSIVE StackValid(_, _, _, _)
StackValid(f, flip_yx, cal, i) ==
    IF i > f.width * f.height THEN <<>>
    ELSE (IF Z_mm(f, cal, i) > 0 THEN <<Row(f, flip_yx, cal, i)>> ELSE <<>>)
         \o StackValid(f, flip_yx, cal, i + 1)

build_point_cloud_from_frame(f, flip_yx, cal) == StackValid(f, flip_yx, Calibration(cal), 1)

NoClouds == [built |-> FALSE, plain |-> <<>>, flipped |-> <<>>]

\* height x width range images, and the calibration dicts passed
Shapes == {wh \in (1 .. MaxPixels) \X (1 .. MaxPixels) : wh[1] * wh[2] <= MaxPixels}
RangeImages ==
    UNION {{[width |-> wh[1], height |-> wh[2], data |-> d]
            : d \in [1 .. wh[1] * wh[2] -> RawValues]} : wh \in Shapes}
Calibrations ==
    {EmptyMap}
    \cup {[scale_z |-> s, pixel_to_mm_z |-> z]
          : s \in {0 - SCALE_Z, 0, SCALE_Z}, z \in {0 - PIXEL_TO_MM_Z, PIXEL_TO_MM_Z}}

----------------------------------------------------------------------------
(* The camera object as a state machine *)

\* the object's fields at the start of a call, with an empty transport log
Self ==
    [acquirers |-> acquirers, acquiring_states |-> acquiring_states,
     initialized |-> initialized, created_for |-> created_for, calls |-> <<>>]

\* No transport call yet since construction or the last disconnect.
NewEpoch == [inits |-> 0, created |-> FALSE, late_init |-> FALSE]

\* The epoch after the transport calls of one method, in call order.  A disconnect
\* ends with transport.reset(), which opens a new epoch; inits counts the
\* initialize calls that returned (2 stands for two or more), created tells that a
\* create was attempted, late_init that an initialize returned after a create.
RECURSIVE EpochAfter(_, _)
EpochAfter(e, calls) ==
    IF calls = <<>> THEN e
    ELSE LET c == Head(calls)
             e1 == IF c.call = "reset" THEN NewEpoch
                   ELSE IF c.call = "initialize" /\ c.ok
                   THEN [e EXCEPT !.inits = IF @ < 2 THEN @ + 1 ELSE @,
                                  !.late_init = @ \/ e.created]
                   ELSE IF c.call = "create_image_acquirer"
                   THEN [e EXCEPT !.created = TRUE]
                   ELSE e
         IN  EpochAfter(e1, Tail(calls))

\* no create_camera call yet
FactoryNew ==
    factory = [called |-> FALSE, device_name_base |-> "", file |-> NoFile,
               exc |-> "none", val |-> NoValue]
\* the threaded capture program has not started
ProgramNew ==
    /\ main_pc = "connect"
    /\ capture_count = 0
    /\ capture_threads = <<>>

\* no point cloud has been built
CloudNew ==
    /\ frame = [width |-> 1, height |-> 1, data |-> <<0>>]
    /\ camera_calibration = EmptyMap
    /\ xyz = NoClouds

OthersNew == FactoryNew /\ ProgramNew /\ CloudNew

\* A call of method op on the camera ends with outcome r.
CameraCall(op, index, dict, r) ==
    /\ epoch' = EpochAfter(epoch, r.m.calls)
    /\ acquirers' = r.m.acquirers
    /\ acquiring_states' = r.m.acquiring_states
    /\ initialized' = r.m.initialized
    /\ created_for' = r.m.created_for
    /\ last' = [op |-> op, index |-> index, dict |-> dict, strict |-> strict,
                pre_acquirers |-> acquirers, pre_states |-> acquiring_states,
                pre_initialized |-> initialized,
                exc |-> r.exc, val |-> r.val, calls |-> r.m.calls]
    /\ UNCHANGED <<topology, id_sensor1, id_sensor2, strict>>

\* A call of method op ends with outcome r; nothing else runs.
Call(op, index, dict, r) ==
    /\ CameraCall(op, index, dict, r)
    /\ UNCHANGED <<tvars, xvars>>

\* CameraATSensors3D.__init__ on top of CameraBase.__init__
Init ==
    /\ topology \in {SingleSensor, DualSensor, "area_scan"}
    /\ id_sensor1 \in {MasterName, None}
    /\ id_sensor2 \in {SlaveName, None}
    /\ strict = TRUE
    /\ acquirers = <<>>
    /\ acquiring_states = EmptyMap
    /\ initialized = FALSE
    /\ created_for = EmptyMap
    /\ epoch = NewEpoch
    /\ last = [op |-> "__init__", index |-> 0, dict |-> NoDict, strict |-> TRUE,
               pre_acquirers |-> <<>>, pre_states |-> EmptyMap, pre_initialized |-> FALSE,
               exc |-> "none", val |-> NoValue, calls |-> <<>>]
    /\ TransportNew
    /\ device_info_list = <<>>
    /\ OthersNew

\* camera.strict = b
SetStrict ==
    /\ strict' = ~strict
    /\ UNCHANGED <<topology, id_sensor1, id_sensor2, acquirers, acquiring_states,
                   initialized, created_for, epoch, last>>
    /\ UNCHANGED <<tvars, xvars>>

Connect == \E r \in CameraATSensors3D_connect(Self) : Call("connect", 0, NoDict, r)

Disconnect == \E r \in CameraBase_disconnect(Self) : Call("disconnect", 0, NoDict, r)

StartAcquisition ==
    \E i \in IndexArgs : \E r \in CameraATSensors3D_start_acquisition(Self, i) :
        Call("start_acquisition", i, NoDict, r)

StopAcquisition ==
    \E i \in IndexArgs : \E r \in CameraATSensors3D_stop_acquisition(Self, i) :
        Call("stop_acquisition", i, NoDict, r)

GetFrame ==
    \E i \in IndexArgs : \E r \in CameraBase_get_frame(Self, i) :
        Call("get_frame", i, NoDict, r)

GetFrames == \E r \in CameraATSensors3D_get_frames(Self) : Call("get_frames", 0, NoDict, r)

CaptureFrames ==
    \E r \in CameraATSensors3D_capture_frames(Self) : Call("capture_frames", 0, NoDict, r)

AcquireFrame ==
    \E i \in IndexArgs : \E r \in CameraBase_acquire_frame(Self, i) :
        Call("acquire_frame", i, NoDict, r)

WithCamera == \E r \in CameraBase_with(Self) : Call("with", 0, NoDict, r)

Destructor == \E r \in CameraBase_del(Self) : Call("__del__", 0, NoDict, r)

\* the GenICam node names used as param_name arguments
ParamNames == {NODES[i] : i \in 1 .. MaxParams}

SetParameter ==
    \E n \in ParamNames, i \in IndexArgs : \E r \in CameraBase_set_parameter(Self, n, i) :
        Call("set_parameter", i, NoDict, r)

GetParameter ==
    \E n \in ParamNames, i \in IndexArgs : \E r \in CameraBase_get_parameter(Self, n, i) :
        Call("get_parameter", i, NoDict, r)

ApplyGenicamParameters ==
    \E d \in GenicamDicts : \E i \in (IF d \in FlatDicts THEN IndexArgs ELSE {0}) :
        \E r \in CameraATSensors3D_apply_genicam_parameters(Self, d, i) :
            Call("apply_genicam_parameters", i, d, r)

Next ==
    \/ SetStrict
    \/ Connect
    \/ Disconnect
    \/ StartAcquisition
    \/ StopAcquisition
    \/ GetFrame
    \/ GetFrames
    \/ CaptureFrames
    \/ AcquireFrame
    \/ SetParameter
    \/ GetParameter
    \/ WithCamera
    \/ Destructor

\* the connection and acquisition lifecycle
Spec == Init /\ [][Next]_vars

ConfigureCamera ==
    \E ps \in ParamDicts, i \in IndexArgs : \E r \in configure_camera(Self, ps, i) :
        Call("configure_camera", i, [sensors |-> EmptyMap, nodes |-> ps], r)

NextParams ==
    \/ SetStrict
    \/ Connect
    \/ Disconnect
    \/ ApplyGenicamParameters
    \/ ConfigureCamera

\* connection and GenICam parameter access
SpecParams == Init /\ [][NextParams]_vars

SetExposureTime ==
    \E i \in IndexArgs : \E r \in CameraATSensors3D_set_exposure_time(Self, i) :
        Call("set_exposure_time", i, NoDict, r)

GetExposureTime ==
    \E i \in IndexArgs : \E r \in CameraATSensors3D_get_exposure_time(Self, i) :
        Call("get_exposure_time", i, NoDict, r)

SetGain ==
    \E i \in IndexArgs : \E r \in CameraATSensors3D_set_gain(Self, i) :
        Call("set_gain", i, NoDict, r)

GetGain ==
    \E i \in IndexArgs : \E r \in CameraATSensors3D_get_gain(Self, i) :
        Call("get_gain", i, NoDict, r)

SetPixelFormat ==
    \E i \in IndexArgs : \E r \in CameraATSensors3D_set_pixel_format(Self, i) :
        Call("set_pixel_format", i, NoDict, r)

GetPixelFormat ==
    \E i \in IndexArgs : \E r \in CameraATSensors3D_get_pixel_format(Self, i) :
        Call("get_pixel_format", i, NoDict, r)

SetRoi ==
    \E i \in IndexArgs : \E r \in CameraATSensors3D_set_roi(Self, i) :
        Call("set_roi", i, NoDict, r)

GetRoi ==
    \E i \in IndexArgs : \E r \in CameraATSensors3D_get_roi(Self, i) :
        Call("get_roi", i, NoDict, r)

GetCameraInfo == \E r \in get_camera_info(Self) : Call("get_camera_info", 0, NoDict, r)

NextAccess ==
    \/ SetStrict
    \/ Connect
    \/ Disconnect
    \/ StartAcquisition
    \/ GetFrame
    \/ GetFrames
    \/ SetParameter
    \/ GetParameter
    \/ SetExposureTime
    \/ GetExposureTime
    \/ SetGain
    \/ GetGain
    \/ SetPixelFormat
    \/ GetPixelFormat
    \/ SetRoi
    \/ GetRoi
    \/ GetCameraInfo

\* a camera constructed with both sensor ids configured
InitAccess == Init /\ id_sensor1 = MasterName /\ id_sensor2 = SlaveName

\* frame and parameter access on a camera that connects, starts and disconnects
SpecAccess == InitAccess /\ [][NextAccess]_vars

----------------------------------------------------------------------------
(* The transport object as a state machine *)

\* A call of transport method op ends with outcome r.
TransportCall(op, device_config, r) ==
    /\ harvester' = r.m.harvester
    /\ image_acquirer' = r.m.image_acquirer
    /\ devices_list' = r.m.devices_list
    /\ is_connected' = r.m.is_connected
    /\ is_acquiring' = r.m.is_acquiring
    /\ session' = SessionAfter(session, op, r)
    /\ tlast' = [op |-> op, device_config |-> device_config,
                 pre |-> TransportSelf, pre_session |-> session,
                 exc |-> r.exc, val |-> r.val, calls |-> r.m.calls]
    /\ UNCHANGED device_info_list
    /\ UNCHANGED <<cvars, xvars>>

\* a transport object of its own, next to a camera object that is not used
InitTransport ==
    /\ topology = SingleSensor
    /\ id_sensor1 = MasterName
    /\ id_sensor2 = None
    /\ strict = TRUE
    /\ acquirers = <<>>
    /\ acquiring_states = EmptyMap
    /\ initialized = FALSE
    /\ created_for = EmptyMap
    /\ epoch = NewEpoch
    /\ last = [op |-> "__init__", index |-> 0, dict |-> NoDict, strict |-> TRUE,
               pre_acquirers |-> <<>>, pre_states |-> EmptyMap, pre_initialized |-> FALSE,
               exc |-> "none", val |-> NoValue, calls |-> <<>>]
    /\ TransportNew
    /\ device_info_list \in DeviceLists
    /\ OthersNew

Initialize ==
    \E r \in TransportHarvesters_initialize(TransportSelf) : TransportCall("initialize", NoConfig, r)

ListDevices ==
    \E r \in TransportHarvesters_list_devices(TransportSelf) :
        TransportCall("list_devices", NoConfig, r)

ConnectDevice ==
    \E c \in DeviceConfigs : \E r \in TransportHarvesters_connect_device(TransportSelf, c) :
        TransportCall("connect_device", c, r)

DisconnectDevice ==
    \E r \in TransportHarvesters_disconnect_device(TransportSelf) :
        TransportCall("disconnect_device", NoConfig, r)

TransportStartAcquisition ==
    \E r \in TransportHarvesters_start_acquisition(TransportSelf) :
        TransportCall("start_acquisition", NoConfig, r)

TransportStopAcquisition ==
    \E r \in TransportHarvesters_stop_acquisition(TransportSelf) :
        TransportCall("stop_acquisition", NoConfig, r)

TransportGetFrame ==
    \E r \in TransportHarvesters_get_frame(TransportSelf) :
        TransportCall("get_frame", NoConfig, r)

SetNodeValue ==
    \E n \in ParamNames : \E r \in TransportHarvesters_set_node_value(TransportSelf, n) :
        TransportCall("set_node_value", NoConfig, r)

GetNodeValue ==
    \E n \in ParamNames : \E r \in TransportHarvesters_get_node_value(TransportSelf, n) :
        TransportCall("get_node_value", NoConfig, r)

AcquisitionContext ==
    \E r \in TransportHarvesters_acquisition_context(TransportSelf) :
        TransportCall("acquisition_context", NoConfig, r)

WithTransport ==
    \E r \in TransportHarvesters_with(TransportSelf) : TransportCall("with", NoConfig, r)

NextTransport ==
    \/ Initialize
    \/ ListDevices
    \/ ConnectDevice
    \/ DisconnectDevice
    \/ TransportStartAcquisition
    \/ TransportStopAcquisition
    \/ TransportGetFrame
    \/ SetNodeValue
    \/ GetNodeValue
    \/ AcquisitionContext
    \/ WithTransport

\* the transport wrapper over the Harvesters SDK
SpecTransport == InitTransport /\ [][NextTransport]_vars

----------------------------------------------------------------------------
(* The factory as a state machine *)

DeviceNames == {"", "at_sensors_3d"}

CreateCamera ==
    /\ \E n \in DeviceNames, f \in ConfigFiles :
          factory' = [called |-> TRUE, device_name_base |-> n, file |-> f,
                      exc |-> create_camera(n, f).exc, val |-> create_camera(n, f).val]
    /\ UNCHANGED <<cvars, tvars, pvars, gvars>>

NextFactory == CreateCamera

InitFactory ==
    /\ Init
    /\ topology = DualSensor /\ id_sensor1 = MasterName /\ id_sensor2 = SlaveName

\* calls of create_camera
SpecFactory == InitFactory /\ [][NextFactory]_vars

----------------------------------------------------------------------------
(* The threaded capture program (src/examples/vendor_at_sensors_3d_threaded_capture.py) *)

\* A step of the program that calls the camera, or that does not.
ProgramCall(op, r) == CameraCall(op, 0, NoDict, r) /\ UNCHANGED <<tvars, fvars, gvars>>
ProgramStep == UNCHANGED <<cvars, tvars, fvars, gvars>>

\* the capture threads that have been started and have not ended
Alive == {t \in DOMAIN capture_threads : capture_threads[t] # "finished"}

\* camera = connect(): outside the try block, so a failure ends the program
MainConnect ==
    /\ main_pc = "connect"
    /\ \E r \in CameraATSensors3D_connect(Self) :
          /\ ProgramCall("connect", r)
          /\ main_pc' = IF r.exc = "none" THEN "input" ELSE "exited"
    /\ UNCHANGED <<capture_count, capture_threads>>

\* key == 'c': the thread is created and started, then the main thread joins it
KeyCapture ==
    /\ main_pc = "input"
    /\ capture_count < MaxCaptures
    /\ capture_threads' = Append(capture_threads, "inspect")
    /\ main_pc' = "join"
    /\ UNCHANGED capture_count
    /\ ProgramStep

\* key == 'q': break
KeyQuit ==
    /\ main_pc = "input"
    /\ main_pc' = "finally"
    /\ UNCHANGED <<capture_count, capture_threads>>
    /\ ProgramStep

\* faulty variant of join: it returns while the thread is still running
MainJoin_NoWait ==
    /\ main_pc = "join"
    /\ capture_count' = capture_count + 1
    /\ main_pc' = "input"
    /\ UNCHANGED capture_threads
    /\ ProgramStep

\* capture_thread.join() returns once the thread has ended; capture_count += 1
MainJoin ==
    /\ main_pc = "join"
    /\ capture_threads[Len(capture_threads)] = "finished"
    /\ capture_count' = capture_count + 1
    /\ main_pc' = "input"
    /\ UNCHANGED capture_threads
    /\ ProgramStep

\* Ctrl-C while the main thread is in input() or in join()
KeyboardInterrupt ==
    /\ main_pc \in {"input", "join"}
    /\ main_pc' = "finally"
    /\ UNCHANGED <<capture_count, capture_threads>>
    /\ ProgramStep

\* finally: camera.disconnect()
MainFinally ==
    /\ main_pc = "finally"
    /\ \E r \in CameraBase_disconnect(Self) : ProgramCall("disconnect", r)
    /\ main_pc' = "exited"
    /\ UNCHANGED <<capture_count, capture_threads>>

\* the thread runs inspect -> capture and enters camera.capture_frames
ThreadBegin ==
    \E t \in DOMAIN capture_threads :
        /\ capture_threads[t] = "inspect"
        /\ capture_threads' = [capture_threads EXCEPT ![t] = "capture_frames"]
        /\ UNCHANGED <<main_pc, capture_count>>
        /\ ProgramStep

\* capture_frames ends: with frames, or with an exception, on which capture
\* calls sys.exit(1), which ends the thread only
ThreadCapture ==
    \E t \in DOMAIN capture_threads :
        /\ capture_threads[t] = "capture_frames"
        /\ \E r \in CameraATSensors3D_capture_frames(Self) :
              /\ ProgramCall("capture_frames", r)
              /\ capture_threads' = [capture_threads EXCEPT
                                       ![t] = IF r.exc = "none" THEN "process" ELSE "finished"]
        /\ UNCHANGED <<main_pc, capture_count>>

\* show_acquisition_results and process_point_clouds, then the thread ends
ThreadProcess ==
    \E t \in DOMAIN capture_threads :
        /\ capture_threads[t] = "process"
        /\ capture_threads' = [capture_threads EXCEPT ![t] = "finished"]
        /\ UNCHANGED <<main_pc, capture_count>>
        /\ ProgramStep

NextProgram ==
    \/ MainConnect
    \/ KeyCapture
    \/ KeyQuit
    \/ MainJoin
    \/ KeyboardInterrupt
    \/ MainFinally
    \/ ThreadBegin
    \/ ThreadCapture
    \/ ThreadProcess

InitProgram == Init /\ topology = DualSensor

\* the threaded capture program on a dual_sensor camera
SpecProgram == InitProgram /\ [][NextProgram]_vars

----------------------------------------------------------------------------
(* The point cloud builder as a state machine *)

\* the cloud of the frame is built without and with flip_yx
BuildPointClouds ==
    /\ ~xyz.built
    /\ xyz' = [built |-> TRUE,
               plain |-> build_point_cloud_from_frame(frame, FALSE, camera_calibration),
               flipped |-> build_point_cloud_from_frame(frame, TRUE, camera_calibration)]
    /\ UNCHANGED <<frame, camera_calibration>>
    /\ UNCHANGED <<cvars, tvars, fvars, pvars>>

NextCloud == BuildPointClouds

InitCloud ==
    /\ topology = DualSensor /\ id_sensor1 = MasterName /\ id_sensor2 = SlaveName
    /\ strict = TRUE
    /\ acquirers = <<>>
    /\ acquiring_states = EmptyMap
    /\ initialized = FALSE
    /\ created_for = EmptyMap
    /\ epoch = NewEpoch
    /\ last = [op |-> "__init__", index |-> 0, dict |-> NoDict, strict |-> TRUE,
               pre_acquirers |-> <<>>, pre_states |-> EmptyMap, pre_initialized |-> FALSE,
               exc |-> "none", val |-> NoValue, calls |-> <<>>]
    /\ TransportNew
    /\ device_info_list = <<>>
    /\ FactoryNew /\ ProgramNew
    /\ frame \in RangeImages
    /\ camera_calibration \in Calibrations
    /\ xyz = NoClouds

\* build_point_cloud_from_frame on every bounded range image and calibration
SpecCloud == InitCloud /\ [][NextCloud]_vars

----------------------------------------------------------------------------
(* Observations on the last call *)

LastCalls(call) == {i \in DOMAIN last.calls : last.calls[i].call = call}

\* the transport call `call` was made on acquirer ia / made and returned / made and raised
Attempted(call, ia) == \E i \in LastCalls(call) : last.calls[i].ia = ia
Succeeded(call, ia) == \E i \in LastCalls(call) : last.calls[i].ia = ia /\ last.calls[i].ok
Failed(call, ia) == \E i \in LastCalls(call) : last.calls[i].ia = ia /\ ~last.calls[i].ok

NoStopFailed == \A i \in LastCalls("stop_image_acquirer") : last.calls[i].ok

Registered == Range(acquirers)
NowAcquiring(ia) == DictGet(acquiring_states, ia, FALSE)
WasAcquiring(ia) == DictGet(last.pre_states, ia, FALSE)

Raised == last.exc # "none"

\* positions in the log of the last call of the transport calls made on acquirer ia
CallsOn(ia) == {i \in DOMAIN last.calls : last.calls[i].ia = ia}

\* the last call addressed a registered acquirer that was idle: the acquirer
AddressedIdle ==
    /\ IndexInList(last.pre_acquirers, last.index)
    /\ ~WasAcquiring(ListAt(last.pre_acquirers, last.index))
Addressed == ListAt(last.pre_acquirers, last.index)

\* on acquirer ia the transport saw exactly a start, then a fetch, then a stop
StartFetchStop(ia) ==
    \E a, b, c \in DOMAIN last.calls :
        /\ a < b /\ b < c
        /\ CallsOn(ia) = {a, b, c}
        /\ last.calls[a].call = "start_image_acquirer"
        /\ last.calls[b].call = "fetch_from_acquirer"
        /\ last.calls[c].call = "stop_image_acquirer"

\* the call was made on a dual_sensor camera with both acquirers registered
DualWithTwo == topology = DualSensor /\ Len(last.pre_acquirers) = 2
DualIdle == DualWithTwo /\ \A ia \in Range(last.pre_acquirers) : ~WasAcquiring(ia)

----------------------------------------------------------------------------
(* Observations on the last call on the transport *)

TransportRaised == tlast.exc # "none"

\* positions in the log of the last transport call of the SDK calls named call
SdkCalls(call) == {i \in DOMAIN tlast.calls : tlast.calls[i].call = call}

\* the names of the SDK calls of the last transport call, in call order
SdkCallNames == [i \in DOMAIN tlast.calls |-> tlast.calls[i].call]

\* every SDK call of the last transport call returned
AllSdkCallsReturned == \A i \in DOMAIN tlast.calls : tlast.calls[i].ok

\* the last transport call was made after a connect_device had returned an
\* acquirer and before any disconnect_device
OnConnectedTransport == tlast.pre_session.connected

----------------------------------------------------------------------------
(* Claims *)

\* C1: in dual_sensor topology, when start_acquisition starts acquirer 0 and the
\* start of acquirer 1 then fails, the call raises and acquirer 0 has been stopped
\* again: no acquirer is acquiring after the failed call.
C1_StartRollsBack ==
    (/\ last.op = "start_acquisition"
     /\ DualWithTwo
     /\ Succeeded("start_image_acquirer", last.pre_acquirers[1])
     /\ Failed("start_image_acquirer", last.pre_acquirers[2]))
    => (Raised /\ \A ia \in Registered : ~NowAcquiring(ia))

\* C2: in dual_sensor topology, when connect creates the first acquirer and the
\* second is not created (its create fails or its search key cannot be built), the
\* call raises and no acquirer remains registered.
C2_ConnectTearsDown ==
    (/\ last.op = "connect"
     /\ topology = DualSensor
     /\ Cardinality({i \in LastCalls("create_image_acquirer") : last.calls[i].ok}) = 1)
    => (Raised /\ acquirers = <<>>)

\* C3: when capture_frames fails in dual_sensor topology, every acquirer that is
\* acquiring gets a stop attempt: an acquirer still acquiring after the call is one
\* whose own stop was attempted and failed.
C3_CleanupStopsEach ==
    (last.op = "capture_frames" /\ DualWithTwo /\ Raised)
    => \A ia \in Registered : NowAcquiring(ia) => Failed("stop_image_acquirer", ia)

\* C4: in dual_sensor topology with two connected idle acquirers, capture_frames
\* exits normally or with CameraError, and when no transport stop call failed during
\* the call neither acquirer is acquiring afterwards.
C4_CaptureLeavesIdle ==
    (last.op = "capture_frames" /\ DualIdle)
    => /\ last.exc \in {"none", "CameraError"}
       /\ NoStopFailed => \A ia \in Registered : ~NowAcquiring(ia)

\* C4 witness: a capture_frames that failed after starting an acquirer and whose
\* cleanup stopped it again
C4_Witness ==
    /\ last.op = "capture_frames" /\ DualIdle
    /\ last.exc = "CameraError"
    /\ NoStopFailed
    /\ \E ia \in Registered : Succeeded("start_image_acquirer", ia)
                              /\ Succeeded("stop_image_acquirer", ia)

\* C5: for a valid index i, after acquire_frame(i) during which no transport stop
\* on acquirer i failed, acquirer i is not acquiring, and a failure is a CameraError.
C5_AcquireFrameStops ==
    (/\ last.op = "acquire_frame"
     /\ 0 <= last.index /\ last.index < Len(last.pre_acquirers)
     /\ ~Failed("stop_image_acquirer", last.pre_acquirers[last.index + 1]))
    => /\ ~NowAcquiring(last.pre_acquirers[last.index + 1])
       /\ last.exc \in {"none", "CameraError"}

C7_FanOut ==
    (DualWithTwo /\ ~Raised)
    => /\ last.op = "start_acquisition" => \A ia \in Registered : NowAcquiring(ia)
       /\ last.op = "stop_acquisition" => \A ia \in Registered : ~NowAcquiring(ia)

\* C7 witness: start_acquisition(1) returning normally on a dual camera of which
\* exactly one acquirer was acquiring
C7_Witness ==
    /\ last.op = "start_acquisition" /\ DualWithTwo /\ ~Raised
    /\ last.index = 1
    /\ WasAcquiring(last.pre_acquirers[1]) /\ ~WasAcquiring(last.pre_acquirers[2])

\* C8: after a dual_sensor connect, get_frames returns the master's (sensor_1)
\* frame under 'primary_frame' and the slave's (sensor_2) under 'secondary_frame'.
C8_PrimaryIsMaster ==
    (/\ last.op = "get_frames"
     /\ DualWithTwo /\ ~Raised
     /\ \A i \in DOMAIN last.calls : last.calls[i].ok)
    => /\ last.val.primary_frame = id_sensor1
       /\ last.val.secondary_frame = id_sensor2

\* C9: apply_genicam_parameters on a dual_sensor camera, given a 'sensor_1' and a
\* 'sensor_2' entry, writes every sensor_1 parameter to the acquirer created for
\* sensor_1 and every sensor_2 parameter to the acquirer created for sensor_2.
C9_AppliesToRespectiveSensors ==
    (/\ last.op = "apply_genicam_parameters"
     /\ DualWithTwo /\ ~Raised
     /\ \E n1 \in ParamDicts, n2 \in ParamDicts :
            last.dict = get_device_genicam(DualSensor, n1, n2)
     /\ \A i \in DOMAIN last.calls : last.calls[i].ok)
    => \A k \in {"sensor_1", "sensor_2"} :
         \A n \in Range(last.dict.sensors[k]) :
           \E i \in LastCalls("set_node_value") :
              /\ last.calls[i].node = n
              /\ created_for[last.calls[i].ia] = (IF k = "sensor_1" THEN id_sensor1 ELSE id_sensor2)

\* C10: after every connect that returns normally the registry holds exactly 1
\* acquirer in single_sensor and exactly 2 in dual_sensor topology, and a destroy
\* was attempted on every acquirer of the previous connection.
C10_ConnectReplaces ==
    (last.op = "connect" /\ ~Raised)
    => /\ topology = SingleSensor => Len(acquirers) = 1
       /\ topology = DualSensor => Len(acquirers) = 2
       /\ topology \in {SingleSensor, DualSensor}
       /\ \A ia \in Range(last.pre_acquirers) : Attempted("destroy_image_acquirer", ia)

\* C10 witness: a successful connect over a previous connection of two acquirers,
\* one of which could not be destroyed
C10_Witness ==
    /\ last.op = "connect" /\ ~Raised
    /\ Len(last.pre_acquirers) = 2
    /\ \E ia \in Range(last.pre_acquirers) : Failed("destroy_image_acquirer", ia)

C13_OnlyAddressedAcquirer ==
    (last.op = "acquire_frame" /\ ~Raised /\ AddressedIdle)
    => /\ StartFetchStop(Addressed)
       /\ \A i \in DOMAIN last.calls : last.calls[i].ia = Addressed

\* C13 amended: a successful acquire_frame(i) on an idle acquirer i makes exactly
\* one start, then one fetch, then one stop on acquirer i, and no fetch on any other
\* acquirer; in single_sensor topology it makes no transport call on another
\* acquirer, and otherwise the only calls on another acquirer are the start and
\* the stop of the fan-out.
C13_AcquireFrameLifecycle ==
    (last.op = "acquire_frame" /\ ~Raised /\ AddressedIdle)
    => /\ StartFetchStop(Addressed)
       /\ \A i \in DOMAIN last.calls :
            last.calls[i].ia # Addressed
            => /\ topology # SingleSensor
               /\ last.calls[i].call \in {"start_image_acquirer", "stop_image_acquirer"}

\* C13 witness: a successful acquire_frame(1) on an idle dual_sensor camera, which
\* also started and stopped acquirer 0
C13_Witness ==
    /\ last.op = "acquire_frame" /\ ~Raised /\ DualIdle
    /\ last.index = 1
    /\ StartFetchStop(last.pre_acquirers[2])
    /\ Succeeded("start_image_acquirer", last.pre_acquirers[1])
    /\ Succeeded("stop_image_acquirer", last.pre_acquirers[1])

FallbackOp == last.op \in {"get_frame", "get_parameter", "set_parameter"}

\* the fallback value of the last call: None, or nothing for set_parameter
Fallback ==
    IF last.op = "get_frame" THEN [frame |-> None]
    ELSE IF last.op = "get_parameter" THEN [value |-> None]
    ELSE NoValue

\* a transport call of the last call raised
SomeCallFailed == \E i \in DOMAIN last.calls : ~last.calls[i].ok

C16_ConnectedAfterConnect ==
    /\ (tlast.op = "connect_device" /\ ~TransportRaised)
       => (is_connected /\ image_acquirer = tlast.val.ia)
    /\ session.connected => is_connected

\* C17: after a connect_device that returns, is_acquiring is false and the call has
\* made no SDK start.
C17_ConnectDoesNotStart ==
    (tlast.op = "connect_device" /\ ~TransportRaised)
    => (~is_acquiring /\ SdkCalls("start") = {})

\* C18: over the connect_device calls that returned since the last
\* disconnect_device, exactly one SDK create has returned and every call returned
\* the same acquirer.
C18_ConnectCreatesOnce ==
    session.connected => (session.creates = 1 /\ Cardinality(session.returned) = 1)

\* C19: a disconnect_device made after connect_device returned, and whose SDK calls
\* all return, does not raise, calls stop (if the transport was acquiring), destroy
\* and reset in that order, and leaves image_acquirer = None, harvester = None,
\* is_acquiring = false and is_connected = false.
C19_DisconnectReleases ==
    (tlast.op = "disconnect_device" /\ OnConnectedTransport /\ AllSdkCallsReturned)
    => /\ ~TransportRaised
       /\ SdkCallNames = (IF tlast.pre.is_acquiring THEN <<"stop">> ELSE <<>>)
                          \o <<"destroy", "reset">>
       /\ image_acquirer = NoAcquirer /\ harvester = None
       /\ ~is_acquiring /\ ~is_connected

\* C20: on a connected transport, start_acquisition while acquiring and
\* stop_acquisition while not acquiring return without an SDK call and leave
\* is_acquiring as it was; a start_acquisition that returns leaves is_acquiring
\* true and a stop_acquisition that returns leaves it false; the SDK start and stop
\* calls that returned alternate, beginning with a start.
C20_StartStopAlternate ==
    /\ OnConnectedTransport
       => /\ (tlast.op = "start_acquisition" /\ tlast.pre.is_acquiring)
             => (~TransportRaised /\ tlast.calls = <<>>)
          /\ (tlast.op = "stop_acquisition" /\ ~tlast.pre.is_acquiring)
             => (~TransportRaised /\ tlast.calls = <<>>)
          /\ (tlast.op = "start_acquisition" /\ ~TransportRaised) => is_acquiring
          /\ (tlast.op = "stop_acquisition" /\ ~TransportRaised) => ~is_acquiring
    /\ session.alternating

\* C21: start_acquisition, stop_acquisition and get_frame called while is_connected
\* is false raise CameraError, make no SDK call and leave every field as it was;
\* get_frame called while not acquiring raises CameraError without an SDK call,
\* also after a connect_device has returned; set_node_value and get_node_value
\* raise CameraError without an SDK call when image_acquirer is None.
C21_NotConnectedRaises ==
    /\ (/\ tlast.op \in {"start_acquisition", "stop_acquisition", "get_frame"}
        /\ ~tlast.pre.is_connected)
       => (tlast.exc = "CameraError" /\ tlast.calls = <<>> /\ TransportSelf = tlast.pre)
    /\ (tlast.op = "get_frame" /\ ~tlast.pre.is_acquiring)
       => (tlast.exc = "CameraError" /\ tlast.calls = <<>>)
    /\ (/\ tlast.op \in {"set_node_value", "get_node_value"}
        /\ tlast.pre.image_acquirer = NoAcquirer)
       => (tlast.exc = "CameraError" /\ tlast.calls = <<>>)

\* C21 witness: a get_frame that raised CameraError on a transport whose
\* connect_device had returned an acquirer and which was not acquiring
C21_Witness ==
    /\ tlast.op = "get_frame"
    /\ OnConnectedTransport
    /\ tlast.pre.image_acquirer # NoAcquirer /\ ~tlast.pre.is_acquiring
    /\ tlast.exc = "CameraError" /\ tlast.calls = <<>>

\* positions in the log of the last transport call of its calls of method `name`
MethodCalls(name) == {i \in DOMAIN tlast.calls : tlast.calls[i].call = name}

\* C22: a with block on acquisition_context calls start_acquisition exactly once,
\* and stop_acquisition exactly once after the body, whether the body returns or
\* raises; a with block on the transport calls connect_device on entry exactly
\* when no device is connected, and disconnect_device exactly once after the body.
C22_ContextManagers ==
    /\ tlast.op = "acquisition_context"
       => /\ Cardinality(MethodCalls("start_acquisition()")) = 1
          /\ \A b \in MethodCalls("body") :
                \E x \in MethodCalls("stop_acquisition()") :
                    b < x /\ MethodCalls("stop_acquisition()") = {x}
    /\ tlast.op = "with"
       => /\ MethodCalls("connect_device()") # {} <=> ~OnConnectedTransport
          /\ \A b \in MethodCalls("body") :
                \E x \in MethodCalls("disconnect_device()") :
                    b < x /\ MethodCalls("disconnect_device()") = {x}

\* C23: an exception that escapes initialize, list_devices, connect_device,
\* disconnect_device, start_acquisition, stop_acquisition, get_frame,
\* set_node_value or get_node_value after an SDK call failed is a CameraError.
C23_SdkErrorsTranslated ==
    (/\ tlast.op \in {"initialize", "list_devices", "connect_device", "disconnect_device",
                      "start_acquisition", "stop_acquisition", "get_frame",
                      "set_node_value", "get_node_value"}
     /\ ~AllSdkCallsReturned
     /\ TransportRaised)
    => tlast.exc = "CameraError"

\* C24: configure_camera raises CameraError when setting any parameter of the
\* dictionary fails, whatever the camera's strict flag is, and it attempts the
\* parameters in dictionary order on the given acquirer index.
C24_ConfigureRaisesOnFailure ==
    last.op = "configure_camera" =>
        /\ (\E i \in LastCalls("set_node_value") : ~last.calls[i].ok) => last.exc = "CameraError"
        /\ \A i \in DOMAIN last.calls :
               /\ last.calls[i].call = "set_node_value"
               /\ last.calls[i].ia = ListAt(last.pre_acquirers, last.index)
               /\ i <= Len(last.dict.nodes)
               /\ last.calls[i].node = last.dict.nodes[i]

\* the configuration file of the last create_camera call loads and holds an entry
\* for the device, and the entry's triple is in the class registry
EntryLoads ==
    /\ factory.called /\ factory.device_name_base # ""
    /\ factory.file.path /\ factory.file.exists /\ factory.file.json
    /\ factory.file.cti_path /\ factory.file.has_entry
    /\ factory.file.entry.topology # None
RegisteredEntry ==
    /\ EntryLoads
    /\ pick_class(factory.file.entry.vendor, factory.file.entry.scanType,
                  get_device_data(factory.file).val.topology).exc = "none"

\* C25: create_camera signals every failure as CameraError, and for a
\* configuration entry whose triple is in the registry it returns a camera.
C25_CreateCameraOutcomes ==
    factory.called =>
        /\ factory.exc \in {"none", "CameraError"}
        /\ RegisteredEntry => (factory.exc = "none" /\ "camera" \in DOMAIN factory.val)

\* C26: create_camera succeeds for an AT Sensors linescan3d entry whose topology
\* is single_sensor as well as for one whose topology is dual_sensor, and the
\* camera it returns has that topology.
C26_BothTopologiesCreated ==
    (/\ EntryLoads
     /\ norm(factory.file.entry.vendor) = "at-automation technology gmbh"
     /\ norm(factory.file.entry.scanType) = "linescan3d"
     /\ get_device_data(factory.file).val.topology \in {SingleSensor, DualSensor})
    => /\ factory.exc = "none"
       /\ "camera" \in DOMAIN factory.val
       /\ factory.val.camera.topology = get_device_data(factory.file).val.topology

\* C27: a camera can be used as a context manager: entering the with block calls
\* connect exactly when the camera is not connected, leaving it calls
\* stop_acquisition exactly when the camera is acquiring and then calls
\* disconnect; the destructor does the same stop-then-disconnect cleanup.
C27_CameraContextManager ==
    /\ last.op = "with" =>
          /\ (LastCalls("connect()") # {}) <=> (last.pre_acquirers = <<>>)
          /\ last.pre_acquirers # <<>> =>
                /\ (LastCalls("stop_acquisition()") # {})
                      <=> (\E ia \in Range(last.pre_acquirers) : WasAcquiring(ia))
                /\ LastCalls("disconnect()") # {}
    /\ last.op = "__del__" =>
          /\ (LastCalls("stop_acquisition()") # {})
                <=> (\E ia \in Range(last.pre_acquirers) : WasAcquiring(ia))
          /\ LastCalls("disconnect()") # {}

ValidPixels ==
    {i \in 1 .. frame.width * frame.height : Z_mm(frame, Calibration(camera_calibration), i) > 0}
RankOf(i) == Cardinality({j \in ValidPixels : j <= i})
PositiveCalibration ==
    \A k \in DOMAIN Calibration(camera_calibration) : Calibration(camera_calibration)[k] > 0

InOrder(call, a, b) ==
    \A i, j \in LastCalls(call) :
        (last.calls[i].ia = a /\ last.calls[j].ia = b) => i < j
\* ... and both acquirers get such a call
BothInOrder(call, a, b) ==
    /\ InOrder(call, a, b)
    /\ Attempted(call, a) /\ Attempted(call, b)

C31_StateMapMatchesRegistry ==
    /\ DOMAIN acquiring_states = Range(acquirers)
    /\ Cardinality(Range(acquirers)) = Len(acquirers)

\* C31 witness: two acquirers are registered and one is tracked as acquiring
\* after a start_acquisition, acquire_frame or capture_frames that raised
C31_Witness ==
    /\ Len(acquirers) = 2
    /\ \E ia \in Registered : NowAcquiring(ia)
    /\ epoch.created
    /\ last.op \in {"start_acquisition", "acquire_frame", "capture_frames"}
    /\ Raised

\* Replaying the transport calls of one method call on the state map it began
\* with: no start is made on an acquirer tracked as acquiring, no stop on one
\* tracked as not acquiring.  A start or stop that returned flips the tracked state.
RECURSIVE WellTracked(_, _)
WellTracked(states, calls) ==
    IF calls = <<>> THEN TRUE
    ELSE LET c == Head(calls)
             tracked == DictGet(states, c.ia, FALSE)
         IN  IF c.call = "start_image_acquirer"
             THEN ~tracked /\ WellTracked(IF c.ok THEN DictPut(states, c.ia, TRUE) ELSE states,
                                          Tail(calls))
             ELSE IF c.call = "stop_image_acquirer"
             THEN tracked /\ WellTracked(IF c.ok THEN DictPut(states, c.ia, FALSE) ELSE states,
                                         Tail(calls))
             ELSE WellTracked(states, Tail(calls))

\* the last call was a start_acquisition / stop_acquisition with a valid index on
\* acquirers that were all acquiring / all not acquiring
Repeated(op, tracked) ==
    /\ last.op = op
    /\ IndexInList(last.pre_acquirers, last.index)
    /\ topology = DualSensor => Len(last.pre_acquirers) = 2
    /\ \A ia \in Range(last.pre_acquirers) : WasAcquiring(ia) = tracked

\* C32: the transport's start is never invoked on an acquirer tracked as
\* acquiring, its stop never on one tracked as not acquiring, and a repeated
\* start_acquisition or stop_acquisition is a no-op.
C32_NoDoubleStartOrStop ==
    /\ WellTracked(last.pre_states, last.calls)
    /\ (Repeated("start_acquisition", TRUE) \/ Repeated("stop_acquisition", FALSE)) =>
          /\ last.calls = <<>>
          /\ ~Raised
          /\ acquiring_states = last.pre_states /\ acquirers = last.pre_acquirers

\* C32 witness: start_acquisition(1) on a dual_sensor camera whose slave was
\* already acquiring started the master only
C32_Witness ==
    /\ last.op = "start_acquisition" /\ DualWithTwo /\ ~Raised
    /\ WasAcquiring(last.pre_acquirers[1]) /\ ~WasAcquiring(last.pre_acquirers[2])
    /\ Len(last.calls) = 1
    /\ last.calls[1].ia = last.pre_acquirers[2]

\* the bookkeeping of the camera is as it was before the last call
BookkeepingUnchanged == acquirers = last.pre_acquirers /\ acquiring_states = last.pre_states

C34_OutOfRangeIndexRaises ==
    (/\ \/ last.op = "get_frame"
        \/ last.op \in {"start_acquisition", "stop_acquisition"} /\ topology = SingleSensor
     /\ (last.index < 0 \/ last.index >= Len(last.pre_acquirers)))
    => /\ last.exc \in CameraErrorFamily
       /\ last.calls = <<>>
       /\ BookkeepingUnchanged

\* C35: acquire_frame(i) only stops an acquisition that it started itself: an
\* acquirer i that was acquiring before the call is still acquiring when
\* acquire_frame(i) returns, and the acquiring state of every other acquirer is
\* unchanged by the call.
C35_StopsOnlyOwnAcquisition ==
    (last.op = "acquire_frame" /\ last.index \in 0 .. Len(last.pre_acquirers) - 1) =>
        /\ acquirers = last.pre_acquirers
        /\ (~Raised /\ WasAcquiring(ListAt(last.pre_acquirers, last.index)))
              => NowAcquiring(ListAt(last.pre_acquirers, last.index))
        /\ \A ia \in Range(last.pre_acquirers) \ {ListAt(last.pre_acquirers, last.index)} :
              NowAcquiring(ia) = WasAcquiring(ia)

\* C36: after any disconnect, whether it returned normally or raised
\* ConnectionError because the transport reset failed, the next connect
\* initializes the transport again before it creates an acquirer: whenever an
\* acquirer creation has been attempted since the reset of the last disconnect
\* (or since construction), an initialize has returned since that reset too.
C36_InitializeAfterDisconnect == epoch.created => epoch.inits >= 1

\* the methods that read frames, read or write GenICam nodes, or report on the camera
AccessOps ==
    {"get_frame", "get_frames", "get_parameter", "set_parameter",
     "set_exposure_time", "get_exposure_time", "set_gain", "get_gain",
     "set_pixel_format", "get_pixel_format", "set_roi", "get_roi", "get_camera_info"}

RoiNodes == <<"Width", "Height", "OffsetX", "OffsetY">>

====
